---- MODULE Spec2Model ----
(***************************************************************************)
(* Universal KYC Passport: the OCR field-extraction engine                 *)
(* (src/unnamed/part_005: normalizeOCRText, extractAllDates, findBirthdate,*)
(* isValidBirthdate, parseDocumentData, parseDate, isValidDateComponents,  *)
(* formatDate, extractDocumentData).                                       *)
(*                                                                         *)
(* Texts are strings; a character is a string of length one.  The regular  *)
(* expressions of the source are values (sequences of nodes) run by a      *)
(* backtracking matcher with the priorities of the JavaScript matcher:     *)
(* leftmost start, alternatives in order, greedy repetition.               *)
(***************************************************************************)
EXTENDS Integers, Sequences, FiniteSets, TLC

(***************************************************************************)
(* Characters and strings                                                  *)
(***************************************************************************)
Ch(s, i) == SubSeq(s, i, i)

UpperLetters == "ABCDEFGHIJKLMNOPQRSTUVWXYZ"
LowerLetters == "abcdefghijklmnopqrstuvwxyz"
DigitChars == "0123456789"

CharSet(s) == {Ch(s, i) : i \in 1..Len(s)}

Upper == CharSet(UpperLetters)
Lower == CharSet(LowerLetters)
Letter == Upper \cup Lower
Digit == CharSet(DigitChars)
\* \w, \s and the separator class [\/\-\.] of the source's patterns
Word == Letter \cup Digit \cup {"_"}
Space == {" ", "\n", "\t", "\r", "\f"}
Sep == {"/", "-", "."}

Min(S) == CHOOSE a \in S : \A b \in S : a <= b
Max(S) == CHOOSE a \in S : \A b \in S : a >= b

\* String.prototype.toUpperCase on one character
UpperOf == [c \in Lower |-> Ch(UpperLetters, CHOOSE i \in 1..26 : Ch(LowerLetters, i) = c)]
UpperCh(c) == IF c \in Lower THEN UpperOf[c] ELSE c

\* the concatenation of the strings (or sequences) ss[lo..hi], empty being e
RECURSIVE Join(_, _, _, _)
Join(ss, lo, hi, e) ==
    IF lo > hi THEN e
    ELSE IF lo = hi THEN ss[lo]
    ELSE Join(ss, lo, (lo + hi) \div 2, e) \o Join(ss, (lo + hi) \div 2 + 1, hi, e)

Concat(ss) == Join(ss, 1, Len(ss), "")
Flatten(ss) == Join(ss, 1, Len(ss), <<>>)

toUpperCase(s) == Concat([i \in 1..Len(s) |-> UpperCh(Ch(s, i))])

\* String.prototype.trim
trim(s) ==
    LET keep == {i \in 1..Len(s) : Ch(s, i) \notin Space}
    IN  IF keep = {} THEN "" ELSE SubSeq(s, Min(keep), Max(keep))

\* String.prototype.indexOf, 1-based; 0 when w does not occur (-1 in the source)
indexOf(s, w) ==
    LET at == {i \in 1..(Len(s) - Len(w) + 1) : SubSeq(s, i, i + Len(w) - 1) = w}
    IN  IF at = {} THEN 0 ELSE Min(at)

(***************************************************************************)
(* Regular expressions.  A pattern is a sequence of nodes:                 *)
(*   set   one character of a class (negated when neg)                     *)
(*   lit   a literal string (ci: compared without case, the i flag)        *)
(*   crep  lo..hi characters of a class, greedy (hi = -1: no limit)        *)
(*   opt   an optional sub-pattern, greedy                                 *)
(*   alt   alternatives, tried in order                                    *)
(*   grp   capturing group number n                                        *)
(*   wb    \b      bos  ^      eos  $                                      *)
(* Under the i flag a class is written with both cases of its letters.     *)
(* A matcher state is the position reached and the groups captured; the    *)
(* states after a node are listed in the order the backtracking matcher    *)
(* of the source tries them, so the first state of the list is its match.  *)
(***************************************************************************)
Cls(cs) == [t |-> "set", cs |-> cs, neg |-> FALSE]
NotCls(cs) == [t |-> "set", cs |-> cs, neg |-> TRUE]
Lit(str) == [t |-> "lit", s |-> str, ci |-> FALSE]
LitI(str) == [t |-> "lit", s |-> str, ci |-> TRUE]
CRep(cs, lo, hi) == [t |-> "crep", cs |-> cs, lo |-> lo, hi |-> hi]
CAtLeast(cs, lo) == [t |-> "crep", cs |-> cs, lo |-> lo, hi |-> -1]
CStar(cs) == CAtLeast(cs, 0)
CPlus(cs) == CAtLeast(cs, 1)
Opt(r) == [t |-> "opt", r |-> r]
Alt(a) == [t |-> "alt", a |-> a]
Grp(n, r) == [t |-> "grp", n |-> n, r |-> r]
WB == [t |-> "wb"]
BOS == [t |-> "bos"]
EOS == [t |-> "eos"]

\* at most three capturing groups in any pattern of the source
NoCaps == << <<0, 0>>, <<0, 0>>, <<0, 0>> >>
NoMatch == [ok |-> FALSE, from |-> 0, to |-> 0, caps |-> NoCaps]

IsWordAt(s, i) == i >= 1 /\ i <= Len(s) /\ Ch(s, i) \in Word

LitAt(str, ci, s, i) ==
    /\ i + Len(str) - 1 <= Len(s)
    /\ \A k \in 1..Len(str) :
          \/ Ch(s, i + k - 1) = Ch(str, k)
          \/ ci /\ UpperCh(Ch(s, i + k - 1)) = UpperCh(Ch(str, k))

\* the number of characters of the class from position i on, at most cap
RunLen(s, i, cs, cap) ==
    LET top == IF cap < 0 \/ i + cap > Len(s) + 1 THEN Len(s) + 1 ELSE i + cap
    IN  Min({j \in i..top : j = top \/ Ch(s, j) \notin cs}) - i

\* the states of a greedy repetition that can take n characters, longest first
Runs(st, n, lo) ==
    IF n < lo THEN <<>>
    ELSE [k \in 1..(n - lo + 1) |-> [st EXCEPT !.to = st.to + n - k + 1]]

\* the states in, each with group n recorded as the text from position from
Capture(in, n, from) ==
    [k \in 1..Len(in) |-> [in[k] EXCEPT !.caps = [in[k].caps EXCEPT ![n] = <<from, in[k].to>>]]]

RECURSIVE Eval(_, _, _, _)
RECURSIVE Step(_, _, _)
Step(r, s, st) ==
    CASE r.t = "set" ->
           IF st.to <= Len(s) /\ ((Ch(s, st.to) \in r.cs) # r.neg)
           THEN <<[st EXCEPT !.to = st.to + 1]>> ELSE <<>>
      [] r.t = "lit" ->
           IF LitAt(r.s, r.ci, s, st.to)
           THEN <<[st EXCEPT !.to = st.to + Len(r.s)]>> ELSE <<>>
      [] r.t = "crep" -> Runs(st, RunLen(s, st.to, r.cs, r.hi), r.lo)
      [] r.t = "opt" -> Eval(r.r, 1, s, <<st>>) \o <<st>>
      [] r.t = "alt" -> Flatten([k \in 1..Len(r.a) |-> Eval(r.a[k], 1, s, <<st>>)])
      [] r.t = "grp" -> Capture(Eval(r.r, 1, s, <<st>>), r.n, st.to)
      [] r.t = "wb" -> IF IsWordAt(s, st.to - 1) # IsWordAt(s, st.to) THEN <<st>> ELSE <<>>
      [] r.t = "bos" -> IF st.to = 1 THEN <<st>> ELSE <<>>
      [] r.t = "eos" -> IF st.to = Len(s) + 1 THEN <<st>> ELSE <<>>

\* the states after the nodes rs[k..] of a pattern, from the states sts
Eval(rs, k, s, sts) ==
    IF k > Len(rs) \/ sts = <<>> THEN sts
    ELSE Eval(rs, k + 1, s, Flatten([j \in 1..Len(sts) |-> Step(rs[k], s, sts[j])]))

\* the match of the pattern that starts at position p
FirstOf(r, p) ==
    IF r = <<>> THEN NoMatch ELSE [ok |-> TRUE, from |-> p, to |-> r[1].to, caps |-> r[1].caps]

RunAt(re, s, p) == FirstOf(Eval(re, 1, s, <<[to |-> p, caps |-> NoCaps]>>), p)

\* the leftmost match that starts in lo..hi
RECURSIVE SearchIn(_, _, _, _)
SearchIn(re, s, lo, hi) ==
    IF lo > hi THEN NoMatch
    ELSE IF lo = hi THEN RunAt(re, s, lo)
    ELSE LET l == SearchIn(re, s, lo, (lo + hi) \div 2)
         IN  IF l.ok THEN l ELSE SearchIn(re, s, (lo + hi) \div 2 + 1, hi)

\* String.prototype.match without the g flag, and RegExp.prototype.test
Match(re, s) == SearchIn(re, s, 1, Len(s) + 1)
Test(re, s) == Match(re, s).ok

\* the text of a match and of its capturing group n ("" when the group took no part)
Text(s, m) == SubSeq(s, m.from, m.to - 1)
Group(s, m, n) == IF m.caps[n][1] = 0 THEN "" ELSE SubSeq(s, m.caps[n][1], m.caps[n][2] - 1)

\* String.prototype.matchAll (g flag): the successive, non-overlapping matches
RECURSIVE MatchAllFrom(_, _, _)
MatchAllAfter(re, s, m) ==
    IF ~m.ok THEN <<>>
    ELSE <<m>> \o MatchAllFrom(re, s, IF m.to = m.from THEN m.to + 1 ELSE m.to)

MatchAllFrom(re, s, p) == MatchAllAfter(re, s, SearchIn(re, s, p, Len(s) + 1))

MatchAll(re, s) == MatchAllFrom(re, s, 1)

\* String.prototype.replace with a g pattern: match ms[k] replaced by reps[k]
Splice(s, ms, reps) ==
    LET n == Len(ms)
        gap(k) == SubSeq(s, IF k = 1 THEN 1 ELSE ms[k - 1].to,
                            (IF k > n THEN Len(s) + 1 ELSE ms[k].from) - 1)
    IN  Concat([k \in 1..(2 * n + 1) |->
                  IF k % 2 = 1 THEN gap((k + 1) \div 2) ELSE reps[k \div 2]])

SpliceAll(s, ms, by) == Splice(s, ms, [k \in 1..Len(ms) |-> by])

ReplaceAll(re, s, by) == SpliceAll(s, MatchAll(re, s), by)

\* String.prototype.replace with a pattern without the g flag: the first match only
SpliceFirst(s, m, by) == IF m.ok THEN Splice(s, <<m>>, <<by>>) ELSE s

ReplaceFirst(re, s, by) == SpliceFirst(s, Match(re, s), by)

null == "null"

(***************************************************************************)
(* Numbers and calendar dates                                              *)
(***************************************************************************)
DigitVal(c) == (CHOOSE i \in 1..10 : Ch(DigitChars, i) = c) - 1

\* parseInt(str, 10) of a string of digits
RECURSIVE parseInt(_)
parseInt(str) ==
    IF Len(str) = 0 THEN 0
    ELSE 10 * parseInt(SubSeq(str, 1, Len(str) - 1)) + DigitVal(Ch(str, Len(str)))

\* Number.prototype.toString of an integer
RECURSIVE toString(_)
toString(n) ==
    IF n < 0 THEN "-" \o toString(-n)
    ELSE IF n < 10 THEN Ch(DigitChars, n + 1)
    ELSE toString(n \div 10) \o Ch(DigitChars, (n % 10) + 1)

\* String.prototype.padStart(2, '0')
padStart2(str) == IF Len(str) < 2 THEN "0" \o str ELSE str

\* The Date object's calendar: the day number of a civil date (days since
\* 1970-01-01, proleptic Gregorian) and the civil date of a day number.
DaysFromCivil(y, m, d) ==
    LET yy == IF m <= 2 THEN y - 1 ELSE y
        era == yy \div 400
        yoe == yy - era * 400
        doy == (153 * (IF m > 2 THEN m - 3 ELSE m + 9) + 2) \div 5 + d - 1
        doe == yoe * 365 + yoe \div 4 - yoe \div 100 + doy
    IN  era * 146097 + doe - 719468

CivilFromDays(z) ==
    LET zz == z + 719468
        era == zz \div 146097
        doe == zz - era * 146097
        yoe == (doe - doe \div 1460 + doe \div 36524 - doe \div 146096) \div 365
        doy == doe - (365 * yoe + yoe \div 4 - yoe \div 100)
        mp == (5 * doy + 2) \div 153
        d == doy - (153 * mp + 2) \div 5 + 1
        m == IF mp < 10 THEN mp + 3 ELSE mp - 9
    IN  [year |-> yoe + era * 400 + (IF m <= 2 THEN 1 ELSE 0), month |-> m, day |-> d]

\* new Date(year, month - 1, day): a day past the end of the month rolls over
DateOf(year, month, day) == CivilFromDays(DaysFromCivil(year, month, 1) + day - 1)

\* (a variant that checks the ranges only: no construction of the date)
isValidDateComponentsRangesOnly(year, month, day) ==
    ~(year < 1900 \/ year > 2100) /\ ~(month < 1 \/ month > 12) /\ ~(day < 1 \/ day > 31)

\* (a variant whose last year is 2101)
isValidDateComponentsTo2101(year, month, day) ==
    IF year < 1900 \/ year > 2101 THEN FALSE
    ELSE IF month < 1 \/ month > 12 THEN FALSE
    ELSE IF day < 1 \/ day > 31 THEN FALSE
    ELSE LET date == DateOf(year, month, day)
         IN  date.year = year /\ date.month = month /\ date.day = day

isValidDateComponents(year, month, day) ==
    IF year < 1900 \/ year > 2100 THEN FALSE
    ELSE IF month < 1 \/ month > 12 THEN FALSE
    ELSE IF day < 1 \/ day > 31 THEN FALSE
    ELSE LET date == DateOf(year, month, day)
         IN  date.year = year /\ date.month = month /\ date.day = day

formatDate(year, month, day) ==
    LET monthStr == padStart2(toString(month))
        dayStr == padStart2(toString(day))
    IN  toString(year) \o "-" \o monthStr \o "-" \o dayStr

(***************************************************************************)
(* normalizeOCRText                                                        *)
(***************************************************************************)
LetterDigit == Letter \cup Digit
\* (a variant with the letter I among the letters that follow a 1 read for an I)
VowelsWithI == {"A", "E", "I", "O", "U"}

Vowels == {"A", "E", "O", "U"}

\* /\bTOK\b/gi, for the month tokens of normalizeOCRText
TokenPattern(tok) == <<WB, LitI(tok), WB>>

\* (a variant without the replacement of 1AN)
MonthFixesWithout1AN ==
    << <<"0CT", "OCT">>, <<"FEB", "FEB">>, <<"MAR", "MAR">>,
       <<"APR", "APR">>, <<"MAY", "MAY">>, <<"1UN", "JUN">>, <<"1UL", "JUL">>,
       <<"AUG", "AUG">>, <<"SEP", "SEP">>, <<"0CT", "OCT">>, <<"N0V", "NOV">>,
       <<"DEC", "DEC">> >>

\* the replacements of normalizeOCRText, in the order of the source
MonthFixes ==
    << <<"0CT", "OCT">>, <<"1AN", "JAN">>, <<"FEB", "FEB">>, <<"MAR", "MAR">>,
       <<"APR", "APR">>, <<"MAY", "MAY">>, <<"1UN", "JUN">>, <<"1UL", "JUL">>,
       <<"AUG", "AUG">>, <<"SEP", "SEP">>, <<"0CT", "OCT">>, <<"N0V", "NOV">>,
       <<"DEC", "DEC">> >>

\* the replacements fixes[k..] applied to s, one after the other
RECURSIVE ApplyFixes(_, _, _)
ApplyNext(fixes, k, next) ==
    \* (the test has next evaluated before the following replacement)
    IF Len(next) >= 0 THEN ApplyFixes(fixes, k + 1, next) ELSE next

ApplyFixes(fixes, k, s) ==
    IF k > Len(fixes) THEN s
    ELSE ApplyNext(fixes, k, ReplaceAll(TokenPattern(fixes[k][1]), s, fixes[k][2]))

\* .replace(/\b0\b/g, 'O')
FixZero(s) == ReplaceAll(<<WB, Lit("0"), WB>>, s, "O")

\* .replace(/1([A-Z])/g, (match, letter) => vowel ? 'I' + letter : match)
FixOneAt(s, ms) ==
    Splice(s, ms, [k \in 1..Len(ms) |->
                     IF Group(s, ms[k], 1) \in Vowels
                     THEN "I" \o Group(s, ms[k], 1) ELSE Text(s, ms[k])])

FixOne(s) == FixOneAt(s, MatchAll(<<Lit("1"), Grp(1, <<Cls(Upper)>>)>>, s))

normalizeOCRText(s) == FixOne(FixZero(ApplyFixes(MonthFixes, 1, s)))

(***************************************************************************)
(* parseDate                                                               *)
(***************************************************************************)
monthNames == <<"JAN", "FEB", "MAR", "APR", "MAY", "JUN",
                "JUL", "AUG", "SEP", "OCT", "NOV", "DEC">>

\* Array.prototype.indexOf(...) + 1
MonthIndex(monthName) ==
    IF \E i \in 1..Len(monthNames) : monthNames[i] = monthName
    THEN CHOOSE i \in 1..Len(monthNames) : monthNames[i] = monthName
    ELSE 0

\* /^(\d{1,2})\s+([A-Z0-9]{3})\s+(\d{2,4})$/i
spaceSeparatedPattern ==
    <<BOS, Grp(1, <<CRep(Digit, 1, 2)>>), CPlus(Space), Grp(2, <<CRep(LetterDigit, 3, 3)>>),
      CPlus(Space), Grp(3, <<CRep(Digit, 2, 4)>>), EOS>>
\* /^(\d{4})[\/\-\.](\d{1,2})[\/\-\.](\d{1,2})$/
ymdPattern ==
    <<BOS, Grp(1, <<CRep(Digit, 4, 4)>>), Cls(Sep), Grp(2, <<CRep(Digit, 1, 2)>>),
      Cls(Sep), Grp(3, <<CRep(Digit, 1, 2)>>), EOS>>
\* /^(\d{1,2})[\/\-\.](\d{1,2})[\/\-\.](\d{2,4})$/
dmyPattern ==
    <<BOS, Grp(1, <<CRep(Digit, 1, 2)>>), Cls(Sep), Grp(2, <<CRep(Digit, 1, 2)>>),
      Cls(Sep), Grp(3, <<CRep(Digit, 2, 4)>>), EOS>>
\* /^(\d{1,2})[\/\-\.]+([A-Z0-9]{3})[\/\-\.]+(\d{2,4})$/i
textDatePattern ==
    <<BOS, Grp(1, <<CRep(Digit, 1, 2)>>), CPlus(Sep), Grp(2, <<CRep(LetterDigit, 3, 3)>>),
      CPlus(Sep), Grp(3, <<CRep(Digit, 2, 4)>>), EOS>>

\* "Fix OCR errors in month name": five replacements of the first occurrence
MonthTokenFixes ==
    << <<"0CT", "OCT">>, <<"1AN", "JAN">>, <<"1UN", "JUN">>, <<"1UL", "JUL">>, <<"N0V", "NOV">> >>

RECURSIVE FixMonthName(_, _)
FixMonthNext(next, k) == IF Len(next) >= 0 THEN FixMonthName(next, k + 1) ELSE next

FixMonthName(monthName, k) ==
    IF k > Len(MonthTokenFixes) THEN monthName
    ELSE FixMonthNext(ReplaceFirst(<<LitI(MonthTokenFixes[k][1])>>, monthName,
                                   MonthTokenFixes[k][2]), k)

\* "Handle 2-digit years"
\* (a variant that puts every year below 100 into the 2000s)
FullYearOfThe2000s(year) == IF year < 100 THEN 2000 + year ELSE year

FullYear(year) == IF year < 100 THEN (IF year < 50 THEN 2000 + year ELSE 1900 + year) ELSE year

\* "if (isValidDateComponents(year, month, day)) return formatDate(...)", else the value no
DateOr(year, month, day, no) ==
    IF isValidDateComponents(year, month, day) THEN formatDate(year, month, day) ELSE no

\* the day-month(abbreviation)-year branches: the date of a match m of s, or null
NamedDate(day, month, year) == IF month > 0 THEN DateOr(year, month, day, null) ELSE null

NamedMonthDate(s, m) ==
    IF m.ok
    THEN NamedDate(parseInt(Group(s, m, 1)),
                   MonthIndex(FixMonthName(toUpperCase(Group(s, m, 2)), 1)),
                   FullYear(parseInt(Group(s, m, 3))))
    ELSE null

\* the branch of YYYY-MM-DD
YmdDate(s, m) ==
    IF m.ok
    THEN DateOr(parseInt(Group(s, m, 1)), parseInt(Group(s, m, 2)), parseInt(Group(s, m, 3)), null)
    ELSE null

\* (a variant that tries MM/DD/YYYY first when both parts are months)
DayMonthMonthFirst(part1, part2, year) ==
    IF part1 <= 12 /\ part2 <= 12
    THEN DateOr(year, part1, part2, DateOr(year, part2, part1, null))
    ELSE IF part1 > 12 THEN DateOr(year, part2, part1, "next")
         ELSE DateOr(year, part1, part2, "next")

\* (a variant without the branch "Definitely MM/DD/YYYY")
DayMonthDayFirst(part1, part2, year) ==
    IF part1 <= 12 /\ part2 <= 12
    THEN DateOr(year, part2, part1, DateOr(year, part1, part2, null))
    ELSE DateOr(year, part2, part1, "next")

\* the branch "Try DD/MM/YYYY or MM/DD/YYYY format"; "next" when it falls through
DayMonth(part1, part2, year) ==
    IF part1 <= 12 /\ part2 <= 12
    THEN DateOr(year, part2, part1, DateOr(year, part1, part2, null))
    ELSE IF part1 > 12 THEN DateOr(year, part2, part1, "next")
         ELSE DateOr(year, part1, part2, "next")

DayMonthDate(s, m) ==
    IF m.ok
    THEN DayMonth(parseInt(Group(s, m, 1)), parseInt(Group(s, m, 2)),
                  FullYear(parseInt(Group(s, m, 3))))
    ELSE "next"

\* the first branch of parseDate that returns
FirstDate(ymdDate, dmyDate, textDate) ==
    IF ymdDate # null THEN ymdDate ELSE IF dmyDate # "next" THEN dmyDate ELSE textDate

parseClean(cleanDate) ==
    FirstDate(YmdDate(cleanDate, Match(ymdPattern, cleanDate)),
              DayMonthDate(cleanDate, Match(dmyPattern, cleanDate)),
              NamedMonthDate(cleanDate, Match(textDatePattern, cleanDate)))

SpaceDateOr(spaceDate, normalizedDate) ==
    IF spaceDate # null THEN spaceDate
    ELSE parseClean(ReplaceAll(<<CPlus(Space)>>, normalizedDate, ""))

parseNormalized(normalizedDate) ==
    SpaceDateOr(NamedMonthDate(normalizedDate, Match(spaceSeparatedPattern, normalizedDate)),
                normalizedDate)

parseDate(dateStr) ==
    IF Len(trim(dateStr)) = 0 THEN null ELSE parseNormalized(normalizeOCRText(trim(dateStr)))

(***************************************************************************)
(* preprocessText and extractAllDates                                      *)
(***************************************************************************)
\* the characters that .replace(/[^\w\s\/\-\.:]/g, '') keeps
Kept == Word \cup Space \cup Sep \cup {":"}

preprocessText(text) ==
    trim(ReplaceAll(<<NotCls(Kept)>>, ReplaceAll(<<CPlus(Space)>>, text, " "), ""))

DayField == Grp(1, <<CRep(Digit, 1, 2)>>)
YearField == Grp(3, <<CRep(Digit, 2, 4)>>)
SepOrSpace == Sep \cup Space
FullMonths ==
    <<"JANUARY", "FEBRUARY", "MARCH", "APRIL", "MAY", "JUNE", "JULY", "AUGUST",
      "SEPTEMBER", "OCTOBER", "NOVEMBER", "DECEMBER">>

\* the five templates of extractAllDates, in the order of the source
datePatterns ==
    << <<WB, DayField, Cls(Sep), Grp(2, <<CRep(Digit, 1, 2)>>), Cls(Sep), YearField, WB>>,
       <<WB, Grp(1, <<CRep(Digit, 4, 4)>>), Cls(Sep), Grp(2, <<CRep(Digit, 1, 2)>>), Cls(Sep),
         Grp(3, <<CRep(Digit, 1, 2)>>), WB>>,
       <<WB, DayField, CPlus(SepOrSpace), Grp(2, <<CRep(LetterDigit, 3, 3)>>),
         CPlus(SepOrSpace), YearField, WB>>,
       <<WB, DayField, CPlus(Space), Grp(2, <<CRep(LetterDigit, 3, 3)>>), CPlus(Space),
         YearField, WB>>,
       <<WB, DayField, CPlus(Space),
         Grp(2, <<Alt([k \in 1..Len(FullMonths) |-> <<LitI(FullMonths[k])>>])>>),
         CPlus(Space), YearField, WB>> >>

\* match[0].trim() of the matches ms of s
TrimmedTexts(s, ms) == [k \in 1..Len(ms) |-> trim(Text(s, ms[k]))]

\* the matches of every template in s, template by template
PatternDates(s) ==
    Flatten([p \in 1..Len(datePatterns) |-> TrimmedTexts(s, MatchAll(datePatterns[p], s))])

Includes(seq, x) == \E i \in 1..Len(seq) : seq[i] = x

\* dates, then the strings of more that dates.includes() does not find when they are pushed
PushNew(dates, more) ==
    dates \o Flatten([k \in 1..Len(more) |->
                        IF Includes(dates, more[k]) \/ \E i \in 1..(k - 1) : more[i] = more[k]
                        THEN <<>> ELSE <<more[k]>>])

\* "Also try the original text (in case normalization broke something)"
WithOriginal(dates, text, normalized) ==
    IF text # normalized THEN PushNew(dates, PatternDates(text)) ELSE dates

ExtractFrom(text, normalized) == WithOriginal(PatternDates(normalized), text, normalized)

extractAllDates(text) == ExtractFrom(text, normalizeOCRText(text))

(***************************************************************************)
(* The clock.  Time is counted in hours since 1970-01-01T00:00Z.  What     *)
(* new Date() returns is a record today: t the time of the call, tz the    *)
(* offset of the local time zone from UTC, in hours (fixed over time).  A  *)
(* call reads the clock once: the reads of one call are taken at the same  *)
(* hour.                                                                   *)
(***************************************************************************)
\* a Date object: its time value t, nan when the time value is NaN
NaN == [nan |-> TRUE, t |-> 0]
Time(t) == [nan |-> FALSE, t |-> t]
oneDay == 24

\* /^(\d{4})-(\d{2})-(\d{2})$/, the date-only form of the Date constructor
IsoPattern ==
    <<BOS, Grp(1, <<CRep(Digit, 4, 4)>>), Lit("-"), Grp(2, <<CRep(Digit, 2, 2)>>), Lit("-"),
      Grp(3, <<CRep(Digit, 2, 2)>>), EOS>>

\* midnight UTC of a calendar date; NaN for a date the calendar does not have
UtcMidnight(year, month, day) ==
    IF month >= 1 /\ month <= 12 /\ day >= 1 /\ DateOf(year, month, day).month = month
    THEN Time(oneDay * DaysFromCivil(year, month, day)) ELSE NaN

TimeOfMatch(s, m) ==
    IF m.ok
    THEN UtcMidnight(parseInt(Group(s, m, 1)), parseInt(Group(s, m, 2)), parseInt(Group(s, m, 3)))
    ELSE NaN

\* new Date(dateStr)
newDate(dateStr) == TimeOfMatch(dateStr, Match(IsoPattern, dateStr))

minDate == newDate("1900-01-01")

\* getFullYear(), getMonth() + 1 and getDate() of the time t, in the zone tz
LocalDate(t, tz) == CivilFromDays((t + tz) \div oneDay)

(***************************************************************************)
(* isValidBirthdate                                                        *)
(***************************************************************************)
actualAge(today, date) ==
    LET age == today.year - date.year
        monthDiff == today.month - date.month
    IN  IF monthDiff < 0 \/ (monthDiff = 0 /\ today.day < date.day) THEN age - 1 ELSE age

AgeInRange(actual) == actual >= 0 /\ actual <= 150

ValidDate(date, today) ==
    IF date.nan THEN FALSE
    ELSE IF date.t > today.t + oneDay THEN FALSE
    ELSE IF date.t < minDate.t THEN FALSE
    ELSE AgeInRange(actualAge(LocalDate(today.t, today.tz), LocalDate(date.t, today.tz)))

isValidBirthdate(dateStr, today) == ValidDate(newDate(dateStr), today)

(***************************************************************************)
(* findBirthdate                                                           *)
(***************************************************************************)
\* (a variant of the list with BORN before DOB)
birthdateKeywordsBornFirst ==
    <<"DATE OF BIRTH", "BORN", "BIRTH DATE", "DOB", "BIRTH", "DATE OF BIRTH:", "DOB:",
      "BIRTHDATE", "BIRTH DATE:", "BORN:">>

birthdateKeywords ==
    <<"DATE OF BIRTH", "DOB", "BIRTH DATE", "BORN", "BIRTH", "DATE OF BIRTH:", "DOB:",
      "BIRTHDATE", "BIRTH DATE:", "BORN:">>

WindowBefore == 75
WindowAfter == 150

\* String.prototype.substring(start, end), positions counted from 0: each argument is
\* brought into 0..length and the smaller one is the start
Clamp(s, i) == Max({0, Min({i, Len(s)})})
substring(s, start, end) ==
    SubSeq(s, Min({Clamp(s, start), Clamp(s, end)}) + 1, Max({Clamp(s, start), Clamp(s, end)}))

ParseAll(dates) == [k \in 1..Len(dates) |-> parseDate(dates[k])]

\* "parsed && isValidBirthdate(parsed)" of every date of parsedDates (null: not parsed)
ValidAll(parsedDates, today) ==
    [k \in 1..Len(parsedDates) |->
       parsedDates[k] # null /\ isValidBirthdate(parsedDates[k], today)]

\* the first date of parsedDates that is a valid birthdate, or null
FirstOk(parsedDates, ok) ==
    IF \E k \in 1..Len(ok) : ok[k]
    THEN parsedDates[Min({k \in 1..Len(ok) : ok[k]})] ELSE null

FirstValid(parsedDates, today) == FirstOk(parsedDates, ValidAll(parsedDates, today))

\* (a variant with Math.min in the place of Math.max: the context starts with the text)
ContextOfMinStart(originalText, keywordIndex, keyword) ==
    substring(originalText, Max({0, Min({0, keywordIndex - WindowBefore})}),
              Min({Len(originalText), keywordIndex + Len(keyword) + WindowAfter}))

\* the text around the keyword whose first occurrence is at keywordIndex
ContextOf(originalText, keywordIndex, keyword) ==
    substring(originalText, Max({0, keywordIndex - WindowBefore}),
              Min({Len(originalText), keywordIndex + Len(keyword) + WindowAfter}))

\* the date found near that keyword, or null
NearKeyword(originalText, keywordIndex, keyword, today) ==
    IF keywordIndex = -1 THEN null
    ELSE FirstValid(ParseAll(extractAllDates(ContextOf(originalText, keywordIndex, keyword))),
                    today)

\* the loop over birthdateKeywords, from keyword k on
RECURSIVE KeywordDate(_, _, _, _)
KeywordDateOr(found, originalText, normalizedText, k, today) ==
    IF found # null THEN found ELSE KeywordDate(originalText, normalizedText, k + 1, today)

KeywordDate(originalText, normalizedText, k, today) ==
    IF k > Len(birthdateKeywords) THEN null
    ELSE KeywordDateOr(NearKeyword(originalText, indexOf(normalizedText, birthdateKeywords[k]) - 1,
                                   birthdateKeywords[k], today),
                       originalText, normalizedText, k, today)

\* the order of Array.prototype.sort() on strings: by character code
CodeOrder == " -./0123456789:ABCDEFGHIJKLMNOPQRSTUVWXYZ_abcdefghijklmnopqrstuvwxyz"
CharCode(c) == CHOOSE i \in 1..Len(CodeOrder) : Ch(CodeOrder, i) = c
SortsBefore(a, b) ==
    \E i \in 1..(Len(a) + 1) :
        /\ SubSeq(a, 1, i - 1) = SubSeq(b, 1, i - 1)
        /\ i <= Len(b)
        /\ (i > Len(a) \/ CharCode(Ch(a, i)) < CharCode(Ch(b, i)))

\* validBirthdates.sort()[0]
FirstSorted(strs) ==
    CHOOSE k \in 1..Len(strs) : \A j \in 1..Len(strs) : strs[j] = strs[k] \/ SortsBefore(strs[k], strs[j])

\* "Check why it's invalid"
AgeReason(age) ==
    IF age < 0 \/ age > 150 THEN "age out of range (" \o toString(age) \o ")" ELSE "unknown"

\* (a variant without the test for a date after today)
ReasonOfNoFuture(date, today) ==
    IF date.nan THEN "invalid date"
    ELSE IF date.t < minDate.t THEN "before 1900"
    ELSE AgeReason(LocalDate(today.t, today.tz).year - LocalDate(date.t, today.tz).year)

ReasonOf(date, today) ==
    IF date.nan THEN "invalid date"
    ELSE IF date.t > today.t THEN "future date"
    ELSE IF date.t < minDate.t THEN "before 1900"
    ELSE AgeReason(LocalDate(today.t, today.tz).year - LocalDate(date.t, today.tz).year)

Reason(parsed, today) == ReasonOf(newDate(parsed), today)

\* (a variant without the sort)
Unsorted(validBirthdates) == IF Len(validBirthdates) > 0 THEN validBirthdates[1] ELSE null

Sorted(validBirthdates) ==
    IF Len(validBirthdates) > 0 THEN validBirthdates[FirstSorted(validBirthdates)] ELSE null

\* the whole-document pass over allDates, whose parsed forms are parsedDates and whose
\* validity is ok: the value returned, the entries of invalidDates and the strings
\* logged as "Could not parse date"
Fallback(allDates, parsedDates, ok, today) ==
    [ret |-> Sorted(Flatten([k \in 1..Len(ok) |-> IF ok[k] THEN <<parsedDates[k]>> ELSE <<>>])),
     invalidDates |->
         Flatten([k \in 1..Len(ok) |->
                    IF parsedDates[k] # null /\ ~ok[k]
                    THEN <<[date |-> allDates[k] \o " -> " \o parsedDates[k],
                            reason |-> Reason(parsedDates[k], today)]>>
                    ELSE <<>>]),
     unparsed |-> Flatten([k \in 1..Len(ok) |-> IF parsedDates[k] = null THEN <<allDates[k]>>
                                                  ELSE <<>>])]

FallbackParsed(allDates, parsedDates, today) ==
    Fallback(allDates, parsedDates, ValidAll(parsedDates, today), today)

FallbackOver(allDates, today) == FallbackParsed(allDates, ParseAll(allDates), today)

FoundOr(found, originalText, today) ==
    IF found # null THEN [ret |-> found, invalidDates |-> <<>>, unparsed |-> <<>>]
    ELSE FallbackOver(extractAllDates(originalText), today)

\* findBirthdate(text) called when the clock reads today: the value returned, with the
\* diagnostics the call logs (invalidDates and the dates that could not be parsed)
findBirthdate(text, today) ==
    FoundOr(KeywordDate(text, toUpperCase(normalizeOCRText(text)), 1, today), text, today)

(***************************************************************************)
(* parseDocumentData                                                       *)
(***************************************************************************)
undefined == "undefined"

LetterOrDigit == Letter \cup Digit
SpaceOrColon == Space \cup {":"}

\* words of a pattern separated by \s+, compared without case
Phrase(ws) ==
    Flatten([k \in 1..Len(ws) |-> IF k = 1 THEN <<LitI(ws[k])>>
                                  ELSE <<CPlus(Space), LitI(ws[k])>>])

Phrases(ps) == Alt([k \in 1..Len(ps) |-> Phrase(ps[k])])

docNumberPatterns ==
    << <<Phrases(<< <<"PASSPORT">>, <<"PASSPORT", "NO">>, <<"PASSPORT", "NUMBER">>,
                    <<"DOCUMENT", "NO">>, <<"DOC", "NO">>, <<"DOCUMENT", "NUMBER">>,
                    <<"ID", "NO">>, <<"ID", "NUMBER">> >>),
         CStar(SpaceOrColon), Grp(1, <<CRep(LetterOrDigit, 6, 15)>>)>>,
       <<WB, Grp(1, <<CRep(Letter, 2, 4)>>), CPlus(Space),
         Grp(2, <<CRep(Letter, 1, 3), CRep(Digit, 6, 12)>>), WB>>,
       <<WB, Grp(1, <<CRep(Upper, 1, 3), CRep(Digit, 6, 12)>>), WB>>,
       <<WB, Grp(1, <<CRep(Digit, 8, 12)>>), WB>>,
       <<Phrases(<< <<"NO">>, <<"NUMBER">> >>), CStar(SpaceOrColon),
         Grp(1, <<CRep(LetterOrDigit, 6, 15)>>)>> >>

DateShaped ==
    <<CRep(Digit, 1, 2), Cls(Sep), CRep(Digit, 1, 2), Cls(Sep), CRep(Digit, 2, 4)>>

\* (a variant that takes any sequence of six digits or more for a long numeric sequence)
IsDocumentNumberOfSix(docNum) ==
    /\ Len(docNum) >= 6
    /\ ~Test(DateShaped, docNum)
    /\ \/ Test(<<Cls(Upper)>>, docNum) /\ Test(<<Cls(Digit)>>, docNum)
       \/ Test(<<BOS, CAtLeast(Digit, 6), EOS>>, docNum)

\* "Validate it's not a date and has reasonable length", at least one letter and one
\* number or a long numeric sequence
IsDocumentNumber(docNum) ==
    /\ Len(docNum) >= 6
    /\ ~Test(DateShaped, docNum)
    /\ \/ Test(<<Cls(Upper)>>, docNum) /\ Test(<<Cls(Digit)>>, docNum)
       \/ Test(<<BOS, CAtLeast(Digit, 8), EOS>>, docNum)

\* docNum of a match: match[2], else match[1] ("" when the pattern is passed over)
DocNumOf(s, m) ==
    IF ~m.ok THEN ""
    ELSE IF Group(s, m, 2) # "" THEN trim(Group(s, m, 2))
    ELSE trim(Group(s, m, 1))

RECURSIVE DocumentNumberFrom(_, _)
DocumentNumberOr(docNum, normalizedText, k) ==
    IF IsDocumentNumber(docNum) THEN docNum ELSE DocumentNumberFrom(normalizedText, k + 1)

\* the loop over docNumberPatterns from pattern k on: result.documentNumber
DocumentNumberFrom(normalizedText, k) ==
    IF k > Len(docNumberPatterns) THEN undefined
    ELSE DocumentNumberOr(DocNumOf(normalizedText, Match(docNumberPatterns[k], normalizedText)),
                          normalizedText, k)

falsePositives ==
    <<"REPUBLIC", "GOVERNMENT", "PASSPORT", "PASIPASSEPORT", "JAMHURI", "REPUBLIQUE",
      "KENYA", "KENYAN", "KEN", "COUNTRY", "NATIONALITY", "ISSUING", "AUTHORITY",
      "BEADS", "PAR", "BONE", "NEER", "MR", "PRD", "STN", "PACE", "HUH", "PE", "KI", "NET",
      "RUIRU", "GTR", "BN", "RIES", "PT", "AUG", "OCT", "JAN", "FEB", "MAR", "APR", "MAY",
      "JUN", "JUL", "SEP", "NOV", "DEC", "GOVERNMENT", "OF", "THE">>

\* [A-Z]{3,}\s+[A-Z]{3,}(?:\s+[A-Z]{3,})? over the letters cs
TwoOrThreeWords(cs) ==
    <<CAtLeast(cs, 3), CPlus(Space), CAtLeast(cs, 3), Opt(<<CPlus(Space), CAtLeast(cs, 3)>>)>>

CapitalizedWord == <<Cls(Upper), CAtLeast(Lower, 2)>>

namePatterns ==
    << <<Alt(<<Phrase(<<"SURNAME">>), Phrase(<<"GIVEN", "NAME">>) \o <<CRep({"S", "s"}, 0, 1)>>,
               Phrase(<<"FULL", "NAME">>), Phrase(<<"NAME">>)>>),
         CStar(SpaceOrColon), Grp(1, <<Cls(Letter), CRep(Letter \cup Space, 4, 50)>>)>>,
       <<LitI("PASSPORT"), CPlus(Space \cup {"/"}), CStar(Letter \cup Space \cup {"/"}),
         CRep({"\n"}, 0, 1), CStar(Space), Grp(1, TwoOrThreeWords(Letter)), CPlus(Space),
         CRep({"\n"}, 0, 1), CStar(Space),
         Phrases(<< <<"NATIONALITY">>, <<"KENYAN">>, <<"COUNTRY">>, <<"SEX">>, <<"DATE">> >>)>>,
       <<WB, Grp(1, CapitalizedWord \o <<CPlus(Space)>> \o CapitalizedWord
                      \o <<Opt(<<CPlus(Space)>> \o CapitalizedWord)>>), WB>> >>

\* String.prototype.split(/\s+/) of a trimmed string of kept characters
split(str) == TrimmedTexts(str, MatchAll(<<CPlus(Kept \ Space)>>, str))

LooksLikeNumber(word) == Test(<<BOS, CRep(Upper, 1, 3), CAtLeast(Digit, 6)>>, word)

IsFalsePositiveWord(word) ==
    Includes(falsePositives, word) \/ Len(word) < 3 \/ LooksLikeNumber(word)

StartsWithHeading ==
    <<BOS, Phrases(<< <<"REPUBLIC">>, <<"GOVERNMENT">>, <<"PASSPORT">>, <<"KENYA">>,
                      <<"KENYAN">>, <<"KEN">>, <<"COUNTRY">> >>)>>

\* "Validate it's a reasonable name", nameWords being the words of name
IsReasonableName(name, nameWords) ==
    /\ ~\E k \in 1..Len(nameWords) : IsFalsePositiveWord(nameWords[k])
    /\ Len(name) >= 5
    /\ Len(name) <= 60
    /\ Test(<<Cls(Letter)>>, name)
    /\ Len(nameWords) >= 2
    /\ Len(nameWords) <= 5
    /\ ~Test(StartsWithHeading, name)

IsName(name) == name # "" /\ IsReasonableName(name, split(toUpperCase(name)))

RECURSIVE PatternName(_, _)
PatternNameOr(name, normalizedText, k) ==
    IF IsName(name) THEN name ELSE PatternName(normalizedText, k + 1)

\* the loop over namePatterns from pattern k on: result.fullName after the loop
PatternName(normalizedText, k) ==
    IF k > Len(namePatterns) THEN undefined
    ELSE PatternNameOr(trim(Group(normalizedText, Match(namePatterns[k], normalizedText), 1)),
                       normalizedText, k)

InFalsePositives(word) == Includes(falsePositives, word)

IsCandidateName(candidateName, candidateWords) ==
    /\ candidateName # ""
    /\ ~\E k \in 1..Len(candidateWords) : InFalsePositives(candidateWords[k])
    /\ Len(candidateName) >= 5
    /\ Len(candidateWords) >= 2

CandidateNameOr(candidateName) ==
    IF IsCandidateName(candidateName, split(toUpperCase(candidateName)))
    THEN candidateName ELSE undefined

CandidateName(candidateText) ==
    CandidateNameOr(trim(Group(candidateText,
                               Match(<<WB, Grp(1, TwoOrThreeWords(Upper)), WB>>, candidateText),
                               1)))

\* (a variant whose span starts at the PASSPORT marker and not after it)
NameBetweenFromMarker(normalizedText, passportIndex, nationalityIndex, kenyanIndex) ==
    IF passportIndex # -1 /\ (nationalityIndex # -1 \/ kenyanIndex # -1)
    THEN CandidateName(trim(substring(normalizedText, passportIndex,
                                      IF nationalityIndex # -1 THEN nationalityIndex
                                      ELSE kenyanIndex)))
    ELSE undefined

\* "try to find it between PASSPORT and NATIONALITY"; the indexes count from 0 and are
\* -1 for a marker that does not occur
NameBetween(normalizedText, passportIndex, nationalityIndex, kenyanIndex) ==
    IF passportIndex # -1 /\ (nationalityIndex # -1 \/ kenyanIndex # -1)
    THEN CandidateName(trim(substring(normalizedText, passportIndex + Len("PASSPORT"),
                                      IF nationalityIndex # -1 THEN nationalityIndex
                                      ELSE kenyanIndex)))
    ELSE undefined

FullNameOr(fullName, normalizedText) ==
    IF fullName # undefined THEN fullName
    ELSE NameBetween(normalizedText, indexOf(normalizedText, "PASSPORT") - 1,
                     indexOf(normalizedText, "NATIONALITY") - 1,
                     indexOf(normalizedText, "KENYAN") - 1)

\* result.fullName
FullName(normalizedText) == FullNameOr(PatternName(normalizedText, 1), normalizedText)

validCountryCodes ==
    <<"KEN", "KENYA", "USA", "US", "UNITED STATES", "UK", "GB", "UNITED KINGDOM",
      "CAN", "CANADA", "GER", "DEU", "GERMANY", "FRA", "FRA", "FRANCE",
      "ESP", "SPAIN", "ITA", "ITALY", "AUS", "AUSTRALIA", "JPN", "JAPAN",
      "CHN", "CHINA", "IND", "INDIA", "BRA", "BRAZIL", "MEX", "MEXICO",
      "RUS", "RUSSIA", "KOR", "SOUTH KOREA", "NLD", "NETHERLANDS", "BEL", "BELGIUM",
      "CHE", "SWITZERLAND", "AUT", "AUSTRIA", "SWE", "SWEDEN", "NOR", "NORWAY",
      "DNK", "DENMARK", "FIN", "FINLAND", "POL", "POLAND", "PRT", "PORTUGAL",
      "GRC", "GREECE", "TUR", "TURKEY", "SAU", "SAUDI ARABIA", "ARE", "UAE",
      "UNITED ARAB EMIRATES">>

countryNames ==
    << <<"USA">>, <<"UNITED", "STATES">>, <<"UK">>, <<"UNITED", "KINGDOM">>, <<"CANADA">>,
       <<"GERMANY">>, <<"FRANCE">>, <<"SPAIN">>, <<"ITALY">>, <<"AUSTRALIA">>, <<"JAPAN">>,
       <<"CHINA">>, <<"INDIA">>, <<"BRAZIL">>, <<"MEXICO">>, <<"RUSSIA">>,
       <<"SOUTH", "KOREA">>, <<"NETHERLANDS">>, <<"BELGIUM">>, <<"SWITZERLAND">>,
       <<"AUSTRIA">>, <<"SWEDEN">>, <<"NORWAY">>, <<"DENMARK">>, <<"FINLAND">>, <<"POLAND">>,
       <<"PORTUGAL">>, <<"GREECE">>, <<"TURKEY">>, <<"SAUDI", "ARABIA">>, <<"UAE">>,
       <<"UNITED", "ARAB", "EMIRATES">>, <<"KENYA">> >>

countryPatterns ==
    << <<Phrases(<< <<"COUNTRY", "CODE">>, <<"NATIONALITY">>, <<"ISSUING", "COUNTRY">>,
                    <<"COUNTRY", "OF", "ISSUE">>, <<"COUNTRY">> >>),
         CStar(SpaceOrColon), Grp(1, <<CRep(Letter, 2, 3)>>), WB>>,
       <<WB, Grp(1, <<Phrases(<< <<"KEN">>, <<"KENYA">> >>)>>), WB>>,
       <<WB, Grp(1, <<Phrases(countryNames)>>), WB>> >>

\* "Normalize country names to codes"
CountryCode(country) ==
    IF country = "KENYA" THEN "KEN"
    ELSE IF country = "UNITED STATES" THEN "USA"
    ELSE IF country = "UNITED KINGDOM" THEN "UK"
    ELSE country

CountryWords == <<"COUNTRY", "NATIONALITY", "KEN", "KENYA", "REPUBLIC", "ISSUING">>

\* "Should be near country-related keywords or at the start of document"; countryIndex
\* counts from 0 and is -1 when the code does not occur in the text
IsCountryContext(normalizedText, country, countryIndex) ==
    /\ countryIndex # -1
    /\ \/ Test(<<Alt([k \in 1..Len(CountryWords) |-> <<Lit(CountryWords[k])>>])>>,
               toUpperCase(substring(normalizedText, Max({0, countryIndex - 20}),
                                     Min({Len(normalizedText),
                                          countryIndex + Len(country) + 20}))))
       \/ countryIndex < 100

\* the country code is known and, with three letters, in a country-related context
IsCountry(normalizedText, country) ==
    /\ country # ""
    /\ Includes(validCountryCodes, country) \/ Test(<<BOS, CRep(Upper, 2, 3), EOS>>, country)
    /\ Len(country) = 3 =>
          IsCountryContext(normalizedText, country, indexOf(normalizedText, country) - 1)

RECURSIVE PatternCountry(_, _)
PatternCountryOr(country, normalizedText, k) ==
    IF IsCountry(normalizedText, country) THEN country
    ELSE PatternCountry(normalizedText, k + 1)

\* the loop over countryPatterns from pattern k on: result.country after the loop
PatternCountry(normalizedText, k) ==
    IF k > Len(countryPatterns) THEN undefined
    ELSE PatternCountryOr(
             CountryCode(toUpperCase(trim(Group(normalizedText,
                                                Match(countryPatterns[k], normalizedText), 1)))),
             normalizedText, k)

\* "Fallback: Look for KEN pattern"
CountryOr(country, normalizedText) ==
    IF country = undefined /\ Test(<<WB, LitI("KEN"), WB>>, normalizedText) THEN "KEN"
    ELSE country

\* result.country
Country(normalizedText) == CountryOr(PatternCountry(normalizedText, 1), normalizedText)

BirthdateOf(birthdate) == IF birthdate # null THEN birthdate ELSE undefined

ParsedFrom(text, preprocessedText, normalizedText, today) ==
    [rawText |-> text,
     birthdate |-> BirthdateOf(findBirthdate(preprocessedText, today).ret),
     documentNumber |-> DocumentNumberFrom(normalizedText, 1),
     fullName |-> FullName(normalizedText),
     country |-> Country(normalizedText)]

ParsedPreprocessed(text, preprocessedText, today) ==
    ParsedFrom(text, preprocessedText, toUpperCase(preprocessedText), today)

\* parseDocumentData(text, documentType) called when the clock reads today: the
\* OCRResult, a field that is not set being undefined
parseDocumentData(text, documentType, today) ==
    ParsedPreprocessed(text, preprocessText(text), today)

(***************************************************************************)
(* extractDocumentData, after the text was recognized                      *)
(***************************************************************************)
\* the lines "  i. item" of forEach((d, i) => ...)
NumberedLines(items) ==
    Concat([i \in 1..Len(items) |-> "  " \o toString(i) \o ". " \o items[i] \o "\n"])

DescribeParsed(dateStr, parsed) ==
    dateStr \o " -> " \o (IF parsed # null THEN parsed ELSE "(could not parse)")

\* parsedDates of the dates [...allDates, ...allDatesPreprocessed]
DescribeDates(dates) == [k \in 1..Len(dates) |-> DescribeParsed(dates[k], parseDate(dates[k]))]

PleaseCheck ==
    "\nPlease check:\n"
    \o "1. The document image is clear and in focus\n"
    \o "2. The birthdate field is clearly visible\n"
    \o "3. The text is not rotated or skewed\n"
    \o "4. The image has sufficient resolution\n"
    \o "\nCheck the browser console for the full OCR text output."

\* (a variant that takes an empty list of dates for a list of dates)
BirthdateMessageOfFound(text, dates) ==
    "Could not extract birthdate from document.\n\n"
    \o "OCR extracted " \o toString(Len(text)) \o " characters of text.\n"
    \o (IF Len(dates) >= 0
        THEN "Found " \o toString(Len(dates)) \o " potential date(s):\n"
             \o NumberedLines(DescribeDates(dates))
             \o "\nThese dates were found but did not pass validation (must be between 1900 and today).\n"
        ELSE "No dates were found in the extracted text.\n")
    \o PleaseCheck

BirthdateMessage(text, dates) ==
    "Could not extract birthdate from document.\n\n"
    \o "OCR extracted " \o toString(Len(text)) \o " characters of text.\n"
    \o (IF Len(dates) > 0
        THEN "Found " \o toString(Len(dates)) \o " potential date(s):\n"
             \o NumberedLines(DescribeDates(dates))
             \o "\nThese dates were found but did not pass validation (must be between 1900 and today).\n"
        ELSE "No dates were found in the extracted text.\n")
    \o PleaseCheck

numberPatterns ==
    << <<WB, Grp(1, <<CRep(Upper, 1, 3), CRep(Digit, 6, 15)>>), WB>>,
       <<WB, Grp(1, <<CRep(Digit, 8, 15)>>), WB>> >>

\* match[1] of the matches ms of s
FirstGroups(s, ms) == [k \in 1..Len(ms) |-> Group(s, ms[k], 1)]

LongEnough(numbers) == SelectSeq(numbers, LAMBDA num : Len(num) >= 6)

\* potentialNumbers: match[1] of the matches of every pattern of numberPatterns
PotentialNumbers(normalizedText) ==
    Flatten([p \in 1..Len(numberPatterns) |->
               LongEnough(FirstGroups(normalizedText,
                                      MatchAll(numberPatterns[p], normalizedText)))])

DocumentNumberMessage(potentialNumbers) ==
    "Could not extract document number from document.\n\n"
    \o (IF Len(potentialNumbers) > 0
        THEN "Found " \o toString(Len(potentialNumbers)) \o " potential document number(s):\n"
             \o NumberedLines(potentialNumbers)
             \o "\nThese were found but did not match expected patterns.\n"
        ELSE "No potential document numbers were found.\n")
    \o "\nPlease ensure the document number is clearly visible."
    \o "\nCheck the browser console for the full OCR text output."

\* a thrown Error
Error(message) == [error |-> message]
IsError(outcome) == "error" \in DOMAIN outcome

\* !value of a string field that may be undefined
Missing(value) == value = undefined \/ value = ""

\* (a variant that does not require the document number)
ValidatedWithoutNumber(parsed, text, documentType) ==
    IF Missing(parsed.birthdate)
    THEN Error(BirthdateMessage(text, extractAllDates(text)
                                        \o extractAllDates(preprocessText(text))))
    ELSE [birthdate |-> parsed.birthdate, documentNumber |-> parsed.documentNumber,
          documentType |-> documentType, fullName |-> parsed.fullName,
          country |-> parsed.country]

\* (a variant that looks for the document number before the birthdate)
ValidatedNumberFirst(parsed, text, documentType) ==
    IF Missing(parsed.documentNumber)
    THEN Error(DocumentNumberMessage(PotentialNumbers(toUpperCase(preprocessText(text)))))
    ELSE IF Missing(parsed.birthdate)
    THEN Error(BirthdateMessage(text, extractAllDates(text)
                                        \o extractAllDates(preprocessText(text))))
    ELSE [birthdate |-> parsed.birthdate, documentNumber |-> parsed.documentNumber,
          documentType |-> documentType, fullName |-> parsed.fullName,
          country |-> parsed.country]

\* "Validate required fields with helpful error messages" and the return of
\* extractDocumentData: the ExtractedData or the Error thrown
Validated(parsed, text, documentType) ==
    IF Missing(parsed.birthdate)
    THEN Error(BirthdateMessage(text, extractAllDates(text)
                                        \o extractAllDates(preprocessText(text))))
    ELSE IF Missing(parsed.documentNumber)
    THEN Error(DocumentNumberMessage(PotentialNumbers(toUpperCase(preprocessText(text)))))
    ELSE [birthdate |-> parsed.birthdate, documentNumber |-> parsed.documentNumber,
          documentType |-> documentType, fullName |-> parsed.fullName,
          country |-> parsed.country]

(***************************************************************************)
(* State.  One call of the engine: its arguments (dateStr, or text and     *)
(* documentType), the clock reading today of the call, the position pc of  *)
(* the call and what it returned (parsed: parseDate or parseDocumentData,  *)
(* valid: isValidBirthdate, found: findBirthdate, result:                  *)
(* extractDocumentData).  parts records the pieces the argument or the     *)
(* document was written from, and calls the calls of extractDocumentData   *)
(* that ended, with their outcomes; the engine reads neither.              *)
(***************************************************************************)
VARIABLES parts, dateStr, text, documentType, today, pc, parsed, valid, found, result, calls,
          dates, noir, app

vars ==
    <<parts, dateStr, text, documentType, today, pc, parsed, valid, found, result, calls, dates,
      noir, app>>

NoClock == [t |-> 0, tz |-> 0]
NotFound == [ret |-> null, invalidDates |-> <<>>, unparsed |-> <<>>]

\* the time, in hours, of hour h of a calendar day (UTC)
HourOf(year, month, day, h) == oneDay * DaysFromCivil(year, month, day) + h

(***************************************************************************)
(* Calls of parseDate.  Tokens of the candidates: <<spelling, value>>.     *)
(***************************************************************************)
FieldTokens ==
    { <<"0", 0>>, <<"1", 1>>, <<"02", 2>>, <<"03", 3>>, <<"4", 4>>, <<"05", 5>>, <<"12", 12>>,
      <<"13", 13>>, <<"29", 29>>, <<"30", 30>>, <<"31", 31>>, <<"32", 32>> }
YearTokens ==
    { <<"1899", 1899>>, <<"1900", 1900>>, <<"1990", 1990>>, <<"2023", 2023>>, <<"2024", 2024>>,
      <<"2100", 2100>>, <<"2101", 2101>>, <<"49", 2049>>, <<"50", 1950>> }
FourDigitYears == {y \in YearTokens : Len(y[1]) = 4 /\ y[2] \in {1899, 2023, 2024, 2100}}
DayTokens == { <<"1", 1>>, <<"17", 17>>, <<"29", 29>>, <<"31", 31>>, <<"32", 32>> }
NamedYears ==
    { <<"2001", 2001>>, <<"2023", 2023>>, <<"2024", 2024>>, <<"49", 2049>>, <<"50", 1950>> }
\* month abbreviations, as printed and as OCR confuses them: <<spelling, month>>
MonthTokens ==
    { <<"JAN", 1>>, <<"FEB", 2>>, <<"APR", 4>>, <<"JUN", 6>>, <<"JUL", 7>>, <<"OCT", 10>>,
      <<"NOV", 11>>, <<"Dec", 12>>, <<"0CT", 10>>, <<"1AN", 1>>, <<"1UN", 6>>, <<"1UL", 7>>,
      <<"N0V", 11>>, <<"0ct", 10>>, <<"XYZ", 0>>, <<"123", 0>> }
NamedSeps == {<<" ", " ">>, <<"-", "-">>, <<"  ", " ">>, <<"/", ".">>}

\* a<sep>b<sep>y, y<sep>a<sep>b and a<sep>MON<sep>y
DateParts ==
    [kind : {"dmy"}, a : FieldTokens, b : FieldTokens, y : YearTokens, sep : {<<"/", "/">>}]
    \cup [kind : {"dmy"}, a : FieldTokens, b : FieldTokens, y : {<<"1990", 1990>>},
          sep : {<<"-", ".">>}]
    \cup [kind : {"ymd"}, a : FieldTokens, b : FieldTokens, y : FourDigitYears, sep : {<<"-", "-">>}]
    \cup [kind : {"mon"}, a : DayTokens, b : MonthTokens, y : NamedYears, sep : NamedSeps]

Spell(p) ==
    IF p.kind = "ymd" THEN p.y[1] \o p.sep[1] \o p.a[1] \o p.sep[2] \o p.b[1]
    ELSE p.a[1] \o p.sep[1] \o p.b[1] \o p.sep[2] \o p.y[1]

InitDate ==
    /\ parts \in DateParts
    /\ dateStr = Spell(parts)
    /\ pc = "parseDate"
    /\ text = "" /\ today = NoClock /\ parsed = null /\ valid = FALSE /\ found = NotFound
    /\ documentType = "passport" /\ result = undefined /\ calls = <<>> /\ dates = <<>>
    /\ noir = null /\ app = null

ParseDate ==
    /\ pc = "parseDate"
    /\ parsed' = parseDate(dateStr)
    /\ pc' = "parsed"
    /\ UNCHANGED <<parts, dateStr, text, documentType, today, valid, found, result, calls, dates,
                 noir, app>>

NextDate == ParseDate

SpecDate == InitDate /\ [][NextDate]_vars

(***************************************************************************)
(* Calls of isValidBirthdate: a canonical date and a clock reading.        *)
(***************************************************************************)
BirthYears == {1899, 1900, 1901, 1990, 2025, 2026, 2027}
BirthDays == {<<1, 1>>, <<2, 28>>, <<6, 14>>, <<6, 15>>, <<6, 16>>, <<11, 2>>, <<11, 3>>,
              <<11, 4>>, <<11, 5>>, <<12, 31>>}
ClockDays ==
    {<<1990, 6, 15>>, <<2026, 6, 15>>, <<2026, 11, 3>>, <<2050, 6, 15>>, <<2050, 12, 31>>,
     <<2051, 6, 15>>}
ClockHours == {0, 15, 22}
\* UTC-5 (New York in winter), UTC, UTC+3 (Nairobi)
Zones == {-5, 0, 3}

Clocks == {[t |-> HourOf(c[1], c[2], c[3], h), tz |-> z] : c \in ClockDays, h \in ClockHours, z \in Zones}

InitBirth ==
    /\ parts \in {[year |-> y, month |-> md[1], day |-> md[2]] : y \in BirthYears, md \in BirthDays}
    /\ dateStr = formatDate(parts.year, parts.month, parts.day)
    /\ today \in Clocks
    /\ pc = "isValidBirthdate"
    /\ text = "" /\ parsed = null /\ valid = FALSE /\ found = NotFound
    /\ documentType = "passport" /\ result = undefined /\ calls = <<>> /\ dates = <<>>
    /\ noir = null /\ app = null

CheckBirthdate ==
    /\ pc = "isValidBirthdate"
    /\ valid' = isValidBirthdate(dateStr, today)
    /\ pc' = "checked"
    /\ UNCHANGED <<parts, dateStr, text, documentType, today, parsed, found, result, calls, dates,
                 noir, app>>

NextBirth == CheckBirthdate

SpecBirth == InitBirth /\ [][NextBirth]_vars

(***************************************************************************)
(* Calls of findBirthdate: a text with a date (other), filling, a label    *)
(* and a date after the label (dob), each of which may be missing.         *)
(***************************************************************************)
NearGap == 1
FarGap == WindowBefore

\* n characters of filling without digits, a space at either end
Filling(n) == Concat([i \in 1..n |-> IF i = 1 \/ i = n THEN " " ELSE "x"])

OtherDates == {"", "01/02/2000", "12 MAR 1985", "01/01/2090"}
Labels == {"", "DATE OF BIRTH: ", "Date of birth "}
DobDates == {"", "15 JAN 1990", "05/03/1990", "1 JAN 1900", "03/11/2027", "31/02/1999"}

FindParts ==
    [other : OtherDates \ {""}, gap : {NearGap, FarGap}, label : Labels, dob : DobDates]
    \cup [other : {""}, gap : {0}, label : Labels, dob : DobDates]

Written(p) == p.other \o Filling(p.gap) \o p.label \o p.dob

FindClocks ==
    {[t |-> HourOf(2026, 11, 3, 15), tz |-> -5], [t |-> HourOf(2026, 11, 3, 15), tz |-> 3],
     [t |-> HourOf(2100, 6, 1, 12), tz |-> 0]}

InitFind ==
    /\ parts \in FindParts
    /\ text = Written(parts)
    /\ today \in FindClocks
    /\ pc = "findBirthdate"
    /\ dateStr = "" /\ parsed = null /\ valid = FALSE /\ found = NotFound
    /\ documentType = "passport" /\ result = undefined /\ calls = <<>> /\ dates = <<>>
    /\ noir = null /\ app = null

FindBirthdate ==
    /\ pc = "findBirthdate"
    /\ found' = findBirthdate(text, today)
    /\ pc' = "found"
    /\ UNCHANGED <<parts, dateStr, text, documentType, today, parsed, valid, result, calls, dates,
                 noir, app>>

NextFind == FindBirthdate

SpecFind == InitFind /\ [][NextFind]_vars

(***************************************************************************)
(* findBirthdate on texts with two labelled dates                          *)
(***************************************************************************)
FirstLabels == {"DOB ", "BORN "}
FirstDates == {"", "31/02/1999", "01/02/2000"}
SecondLabels == {"DOB ", "BORN "}
SecondDates == {"15 JAN 1990", "03/11/2027"}
EarlierDates == {"", "12 MAR 1985"}

KeywordParts ==
    [other : EarlierDates, label1 : FirstLabels, date1 : FirstDates, label2 : SecondLabels,
     date2 : SecondDates]

\* the other date ends WindowBefore characters before the first label, and the second
\* label starts WindowAfter characters after the first date
WrittenTwice(p) ==
    (IF p.other = "" THEN "" ELSE p.other \o Filling(WindowBefore))
        \o p.label1 \o p.date1 \o Filling(WindowAfter) \o p.label2 \o p.date2

KeywordClocks ==
    {[t |-> HourOf(2026, 11, 3, 15), tz |-> -5], [t |-> HourOf(2100, 6, 1, 12), tz |-> 0]}

InitKeywords ==
    /\ parts \in KeywordParts
    /\ text = WrittenTwice(parts)
    /\ today \in KeywordClocks
    /\ pc = "findBirthdate"
    /\ dateStr = "" /\ parsed = null /\ valid = FALSE /\ found = NotFound
    /\ documentType = "passport" /\ result = undefined /\ calls = <<>> /\ dates = <<>>
    /\ noir = null /\ app = null

NextKeywords == FindBirthdate

SpecKeywords == InitKeywords /\ [][NextKeywords]_vars

(***************************************************************************)
(* The calendar, as the claims state it                                    *)
(***************************************************************************)
IsLeapYear(y) == (y % 4 = 0 /\ y % 100 # 0) \/ y % 400 = 0
DaysInMonth(y, m) ==
    IF m = 2 THEN (IF IsLeapYear(y) THEN 29 ELSE 28)
    ELSE IF m \in {4, 6, 9, 11} THEN 30 ELSE 31
OnCalendar(y, m, d) ==
    /\ 1900 <= y /\ y <= 2100
    /\ 1 <= m /\ m <= 12
    /\ 1 <= d /\ d <= DaysInMonth(y, m)

TwoDigits(n) == Ch(DigitChars, (n \div 10) + 1) \o Ch(DigitChars, (n % 10) + 1)
\* the canonical string YYYY-MM-DD of a date
Canonical(y, m, d) == TwoDigits(y \div 100) \o TwoDigits(y % 100) \o "-" \o TwoDigits(m) \o "-" \o TwoDigits(d)

AllDigits(str) == \A i \in 1..Len(str) : Ch(str, i) \in Digit
IsCanonical(str) ==
    /\ Len(str) = 10
    /\ Ch(str, 5) = "-" /\ Ch(str, 8) = "-"
    /\ AllDigits(SubSeq(str, 1, 4)) /\ AllDigits(SubSeq(str, 6, 7)) /\ AllDigits(SubSeq(str, 9, 10))
YearIn(str) == parseInt(SubSeq(str, 1, 4))
MonthIn(str) == parseInt(SubSeq(str, 6, 7))
DayIn(str) == parseInt(SubSeq(str, 9, 10))

\* the dates <<year, month, day>> a candidate can be read as
Readings(p) ==
    IF p.kind = "ymd" THEN {<<p.y[2], p.a[2], p.b[2]>>}
    ELSE IF p.kind = "mon" THEN {<<p.y[2], p.b[2], p.a[2]>>}
    ELSE IF p.a[2] > 12 THEN {<<p.y[2], p.b[2], p.a[2]>>}
    ELSE IF p.b[2] > 12 THEN {<<p.y[2], p.a[2], p.b[2]>>}
    ELSE {<<p.y[2], p.b[2], p.a[2]>>, <<p.y[2], p.a[2], p.b[2]>>}

\* C3: every non-null result of parseDate is a string YYYY-MM-DD of a date of the
\* calendar with its year in 1900..2100 (leap years honoured), and a candidate none of
\* whose readings is such a date yields null.
C3_CalendarInvariant ==
    pc = "parsed" =>
        /\ parsed # null =>
              /\ IsCanonical(parsed)
              /\ OnCalendar(YearIn(parsed), MonthIn(parsed), DayIn(parsed))
        /\ (\A r \in Readings(parts) : ~OnCalendar(r[1], r[2], r[3])) => parsed = null

\* 29 February of a leap year is returned
C3_Witness == pc = "parsed" /\ parsed = "2024-02-29" /\ parts.kind = "dmy"

\* C4: a numeric candidate A<sep>B<sep>Y with A and B in 1..12 and a valid year parses
\* to the day-first reading, day A of month B; "05/03/1990" parses to 1990-03-05.
C4_DayFirst ==
    pc = "parsed" /\ parts.kind = "dmy" =>
        /\ (parts.a[2] \in 1..12 /\ parts.b[2] \in 1..12 /\ parts.y[2] \in 1900..2100)
              => parsed = Canonical(parts.y[2], parts.b[2], parts.a[2])
        /\ dateStr = "05/03/1990" => parsed = "1990-03-05"

C4_Witness == pc = "parsed" /\ dateStr = "05/03/1990" /\ parsed = "1990-03-05"

BigField(p) == IF p.a[2] > 12 THEN p.a[2] ELSE p.b[2]
SmallField(p) == IF p.a[2] > 12 THEN p.b[2] ELSE p.a[2]

\* C5: in a numeric candidate A<sep>B<sep>Y with exactly one of A, B above 12, that
\* field is the day and the other the month, whatever their positions: the result is
\* that date when the calendar has it (null when not); "13/02/1990" and "02/13/1990"
\* parse to 1990-02-13.
C5_DayOverride ==
    pc = "parsed" /\ parts.kind = "dmy" =>
        /\ ((parts.a[2] > 12) # (parts.b[2] > 12)) =>
              parsed = IF OnCalendar(parts.y[2], SmallField(parts), BigField(parts))
                       THEN Canonical(parts.y[2], SmallField(parts), BigField(parts))
                       ELSE null
        /\ dateStr \in {"13/02/1990", "02/13/1990"} => parsed = "1990-02-13"

C5_Witness == pc = "parsed" /\ dateStr = "02/13/1990" /\ parsed = "1990-02-13"

\* the month tokens as OCR confuses them, and as printed
Corrected == [tok \in {"0CT", "1AN", "1UN", "1UL", "N0V"} |->
                CASE tok = "0CT" -> "OCT" [] tok = "1AN" -> "JAN" [] tok = "1UN" -> "JUN"
                  [] tok = "1UL" -> "JUL" [] tok = "N0V" -> "NOV"]

\* C6: a day-month-year candidate whose month token is 0CT, 1AN, 1UN, 1UL or N0V parses
\* to the date of the candidate with OCT, JAN, JUN, JUL, NOV in its place, separated by
\* spaces as by hyphens or dots; "17 0CT 2001" parses to 2001-10-17.
C6_MonthCorrection ==
    pc = "parsed" /\ parts.kind = "mon" =>
        /\ parts.b[1] \in DOMAIN Corrected =>
              /\ parsed = parseDate(Spell([parts EXCEPT !.b = <<Corrected[parts.b[1]], parts.b[2]>>]))
              /\ parsed = IF OnCalendar(parts.y[2], parts.b[2], parts.a[2])
                           THEN Canonical(parts.y[2], parts.b[2], parts.a[2]) ELSE null
        /\ dateStr = "17 0CT 2001" => parsed = "2001-10-17"

C6_Witness == pc = "parsed" /\ dateStr = "17 0CT 2001" /\ parsed = "2001-10-17"

\* the year that a year of two digits stands for
Pivot(yy) == IF yy < 50 THEN 2000 + yy ELSE 1900 + yy

\* C20: a candidate day-month-year with a year yy of two digits, numeric or with a month
\* abbreviation between spaces, hyphens or dots, parses to a date of the year 2000 + yy
\* when yy < 50 and of the year 1900 + yy when yy >= 50, and it parses when that year
\* gives one of its readings a date of the calendar.
C20_TwoDigitYears ==
    (pc = "parsed" /\ parts.kind \in {"dmy", "mon"} /\ Len(parts.y[1]) = 2) =>
        /\ parsed # null => YearIn(parsed) = Pivot(parseInt(parts.y[1]))
        /\ (\E r \in Readings(parts) : OnCalendar(Pivot(parseInt(parts.y[1])), r[2], r[3]))
              => parsed # null

\* 50 stands for 1950 between hyphens and 49 for 2049 between slashes
C20_Witness ==
    /\ pc = "parsed"
    /\ \/ dateStr = "17-OCT-50" /\ parsed = "1950-10-17"
       \/ dateStr = "1 JAN 50" /\ parsed = "1950-01-01"
       \/ dateStr = "05/03/49" /\ parsed = "2049-03-05"

\* C22: a numeric candidate A<sep>B<sep>Y with A and B both at most 12 parses to the
\* day-first date, day A of month B, and never to the month-first one; it parses to null
\* exactly when A or B is 0 or the year is outside 1900..2100, and the day-first and the
\* month-first readings are dates of the calendar for the same candidates.
C22_NeverMonthFirst ==
    (pc = "parsed" /\ parts.kind = "dmy" /\ parts.a[2] <= 12 /\ parts.b[2] <= 12) =>
        /\ parsed = null <=>
              (parts.a[2] = 0 \/ parts.b[2] = 0 \/ parts.y[2] \notin 1900..2100)
        /\ parsed # null => parsed = Canonical(parts.y[2], parts.b[2], parts.a[2])
        /\ (parsed # null /\ parts.a[2] # parts.b[2])
              => parsed # Canonical(parts.y[2], parts.a[2], parts.b[2])
        /\ OnCalendar(parts.y[2], parts.b[2], parts.a[2])
              <=> OnCalendar(parts.y[2], parts.a[2], parts.b[2])

\* the twelfth of January, not the first of December
C22_Witness == pc = "parsed" /\ dateStr = "12/1/2100" /\ parsed = "2100-01-12"

\* the age in full elapsed years of the date d on the current date cur: the difference
\* of the years, minus one when this year's birthday has not yet occurred
ElapsedYears(d, cur) ==
    cur.year - d.year
      - (IF d.month > cur.month \/ (d.month = cur.month /\ d.day > cur.day) THEN 1 ELSE 0)

\* the plausibility of the date d when the clock reads now, as the claim states it
Plausible(d, now) ==
    /\ HourOf(d.year, d.month, d.day, 0) <= now.t + oneDay
    /\ HourOf(d.year, d.month, d.day, 0) >= HourOf(1900, 1, 1, 0)
    /\ ElapsedYears(d, LocalDate(now.t, now.tz)) \in 0..150

\* C7: for every canonical date d and every current date, isValidBirthdate(d) is true
\* if and only if d is not more than one day in the future, d is not before 1900-01-01
\* and the age in full elapsed years is between 0 and 150 inclusive.
C7_PlausibilityFilter == pc = "checked" => (valid <=> Plausible(parts, today))

(***************************************************************************)
(* Calls of normalizeOCRText: the text is normalized, and what was         *)
(* returned is normalized again.  A text is written from the pieces of     *)
(* the tokens that the replacements look for.                              *)
(***************************************************************************)
Pieces == {"0", "1", "A", "N", "U", "L", "CT", "V", " ", "a"}
MaxPieces == 3

PieceLists == UNION {[1..n -> Pieces] : n \in 0..MaxPieces}

InitNormalize ==
    /\ parts \in PieceLists
    /\ text = Concat(parts)
    /\ pc = "normalizeOCRText"
    /\ dateStr = "" /\ today = NoClock /\ parsed = null /\ valid = FALSE /\ found = NotFound
    /\ documentType = "passport" /\ result = undefined /\ calls = <<>> /\ dates = <<>>
    /\ noir = null /\ app = null

Normalize ==
    /\ pc = "normalizeOCRText"
    /\ text' = normalizeOCRText(text)
    /\ pc' = "normalized"
    /\ UNCHANGED <<parts, dateStr, documentType, today, parsed, valid, found, result, calls, dates,
                 noir, app>>

NormalizeAgain ==
    /\ pc = "normalized"
    /\ text' = normalizeOCRText(text)
    /\ pc' = "normalized again"
    /\ UNCHANGED <<parts, dateStr, documentType, today, parsed, valid, found, result, calls, dates,
                 noir, app>>

NextNormalize == Normalize \/ NormalizeAgain

SpecNormalize == InitNormalize /\ [][NextNormalize]_vars

(***************************************************************************)
(* extractAllDates on texts of one or two dates                            *)
(***************************************************************************)
DateTexts ==
    {"", "15 JAN 1990", "15/01/1990", "1990-01-15", "15-JAN-1990", "17 0CT 2001",
     "5 MAY 55", "15 JANUARY 1990", "I5/O1/199O", "15.01.90"}

DateLines == [first : DateTexts, second : DateTexts]

InitDates ==
    /\ parts \in DateLines
    /\ text = parts.first \o " " \o parts.second
    /\ pc = "extractAllDates"
    /\ dateStr = "" /\ today = NoClock /\ parsed = null /\ valid = FALSE /\ found = NotFound
    /\ documentType = "passport" /\ result = undefined /\ calls = <<>> /\ dates = <<>>
    /\ noir = null /\ app = null

ExtractAllDates ==
    /\ pc = "extractAllDates"
    /\ dates' = extractAllDates(text)
    /\ pc' = "extracted"
    /\ UNCHANGED <<parts, dateStr, text, documentType, today, parsed, valid, found, result, calls,
                 noir, app>>

NextDates == ExtractAllDates

SpecDates == InitDates /\ [][NextDates]_vars

(***************************************************************************)
(* Calls of extractDocumentData.  A document is written from five pieces;  *)
(* the text recognizer reads the text of the document or fails.            *)
(***************************************************************************)
Headings == {"", "PASSPORT "}
Names == {"", "JOHN SMITH "}
Nationalities == {"", "NATIONALITY KEN "}
Births == {"", "DATE OF BIRTH: 15 JAN 1990 ", "DOB 31/02/1999 ", "DOB 15,/01/1990 ", "DOB 15/01 "}
Numbers == {"", "PASSPORT NO AK1626595", "ID NO 12345678"}

Documents ==
    [heading : Headings, name : Names, nationality : Nationalities, birth : Births,
     number : Numbers]

Printed(p) == p.heading \o p.name \o p.nationality \o p.birth \o p.number

Specimen ==
    [heading |-> "PASSPORT ", name |-> "JOHN SMITH ", nationality |-> "NATIONALITY KEN ",
     birth |-> "DATE OF BIRTH: 15 JAN 1990 ", number |-> "PASSPORT NO AK1626595"]

DocumentTypes == {"passport", "id", "driver_license"}

Now == [t |-> HourOf(2026, 11, 3, 15), tz |-> -5]

\* the clocks of the calls on the specimen: the first and the last hours in which its
\* holder is of an age from 0 to 150, and the hours next to them
SpecimenClocks ==
    {Now,
     [t |-> HourOf(1990, 1, 16, 5), tz |-> -5],
     [t |-> HourOf(1990, 1, 15, 22), tz |-> 3],
     [t |-> HourOf(2141, 1, 13, 20), tz |-> -5],
     [t |-> HourOf(2141, 1, 13, 23), tz |-> 0],
     [t |-> HourOf(2141, 1, 15, 12), tz |-> 0]}

OcrErrors == {"Unknown error", "Network error"}

NotParsed ==
    [rawText |-> "", birthdate |-> undefined, documentNumber |-> undefined,
     fullName |-> undefined, country |-> undefined]

Init ==
    /\ parts \in Documents
    /\ documentType \in DocumentTypes
    /\ today \in SpecimenClocks
    /\ parts = Specimen \/ (documentType = "passport" /\ today = Now)
    /\ pc = "extractTextFromImage"
    /\ text = "" /\ parsed = NotParsed /\ result = undefined
    /\ dateStr = "" /\ valid = FALSE /\ found = NotFound /\ calls = <<>> /\ dates = <<>>
    /\ noir = null /\ app = null

\* extractTextFromImage resolves with the text of the document
Recognize ==
    /\ pc = "extractTextFromImage"
    /\ text' = Printed(parts)
    /\ pc' = "parseDocumentData"
    /\ UNCHANGED <<parts, dateStr, documentType, today, parsed, valid, found, result, calls, dates,
                 noir, app>>

\* worker.recognize rejects: extractTextFromImage and extractDocumentData throw
RecognizeFails ==
    /\ pc = "extractTextFromImage"
    /\ \E message \in OcrErrors : result' = Error("OCR extraction failed: " \o message)
    /\ pc' = "thrown"
    /\ UNCHANGED <<parts, dateStr, text, documentType, today, parsed, valid, found, calls, dates,
                 noir, app>>

\* the rest of extractDocumentData: parseDocumentData, the validation and the return
ExtractDocumentData ==
    /\ pc = "parseDocumentData"
    /\ parsed' = parseDocumentData(text, documentType, today)
    /\ result' = Validated(parsed', text, documentType)
    /\ pc' = IF IsError(result') THEN "thrown" ELSE "returned"
    /\ UNCHANGED <<parts, dateStr, text, documentType, today, valid, found, calls, dates,
                 noir, app>>

Next == Recognize \/ RecognizeFails \/ ExtractDocumentData

Spec == Init /\ [][Next]_vars

(***************************************************************************)
(* Two calls of extractDocumentData, one after the other, on texts that    *)
(* were recognized; the clock does not go back between them.               *)
(***************************************************************************)
CallDocuments == {Specimen, [Specimen EXCEPT !.number = ""]}
CallTypes == {"passport", "id"}
CallClocks ==
    {Now, [t |-> HourOf(2141, 1, 14, 12), tz |-> 0], [t |-> HourOf(2141, 1, 15, 12), tz |-> 0]}

\* (a variant in which every call that ended has moved the date one day on)
CurrentDateMovedOn(clock, ended) == [clock EXCEPT !.t = clock.t + oneDay * Len(ended)]

\* new Date() of isValidBirthdate and of findBirthdate in a call, clock being the clock
\* at the call and ended the calls before it
CurrentDate(clock, ended) == clock

InitCalls ==
    /\ parts \in CallDocuments
    /\ text = Printed(parts)
    /\ documentType \in CallTypes
    /\ today \in CallClocks
    /\ pc = "first call"
    /\ parsed = NotParsed /\ result = undefined /\ calls = <<>> /\ dates = <<>>
    /\ noir = null /\ app = null
    /\ dateStr = "" /\ valid = FALSE /\ found = NotFound

Call ==
    /\ pc \in {"first call", "second call"}
    /\ parsed' = parseDocumentData(text, documentType, CurrentDate(today, calls))
    /\ result' = Validated(parsed', text, documentType)
    /\ calls' = Append(calls, [text |-> text, documentType |-> documentType,
                               today |-> today, outcome |-> result'])
    /\ pc' = IF pc = "first call" THEN "between calls" ELSE "ended"
    /\ UNCHANGED <<parts, dateStr, text, documentType, today, valid, found, dates,
                 noir, app>>

\* the caller has another document, or the same one, recognized and calls again
CallAgain ==
    /\ pc = "between calls"
    /\ \E p \in CallDocuments, type \in CallTypes, clock \in CallClocks :
          /\ clock.t >= today.t
          /\ parts' = p
          /\ text' = Printed(p)
          /\ documentType' = type
          /\ today' = clock
    /\ pc' = "second call"
    /\ UNCHANGED <<dateStr, parsed, valid, found, result, calls, dates,
                 noir, app>>

NextCalls == Call \/ CallAgain

SpecCalls == InitCalls /\ [][NextCalls]_vars

(***************************************************************************)
(* The proof service (src/unnamed/part_004): parseBirthdate on the dates   *)
(* that formatDate writes                                                  *)
(***************************************************************************)
\* String.prototype.split(sep) with a separator of one character
RECURSIVE SplitOn(_, _)
SplitRest(str, sep, at) ==
    IF at = 0 THEN <<str>>
    ELSE <<SubSeq(str, 1, at - 1)>> \o SplitOn(SubSeq(str, at + 1, Len(str)), sep)

SplitOn(str, sep) == SplitRest(str, sep, indexOf(str, sep))

\* a number of JS: NaN (NotANumber), or the integer n
NotANumber == [nan |-> TRUE, n |-> 0]
Num(n) == [nan |-> FALSE, n |-> n]

\* Number(str) of a string without sign, point or exponent: 0 for the empty string, the
\* decimal value of a string of digits, NaN for any other string
Number(str) ==
    IF str = "" THEN Num(0)
    ELSE IF \A i \in 1..Len(str) : Ch(str, i) \in Digit THEN Num(parseInt(str))
    ELSE NotANumber

\* "!x || isNaN(x)" for an element x of the destructured array (undefined when the array
\* is too short)
Falsy(x) == x.nan \/ x.n = 0
Element(fields, k) == IF k <= Len(fields) THEN Number(fields[k]) ELSE NotANumber

BirthdateOfFields(year, month, day) ==
    IF Falsy(year) \/ Falsy(month) \/ Falsy(day)
    THEN Error("Invalid birthdate format. Expected YYYY-MM-DD")
    ELSE [year |-> year.n, month |-> month.n, day |-> day.n]

\* (a variant that takes the fields as year, day, month)
parseFieldsDayFirst(fields) ==
    BirthdateOfFields(Element(fields, 1), Element(fields, 3), Element(fields, 2))

parseFields(fields) ==
    BirthdateOfFields(Element(fields, 1), Element(fields, 2), Element(fields, 3))

\* parseBirthdate(birthdate): the components, or the Error thrown
parseBirthdate(birthdate) == parseFields(SplitOn(birthdate, "-"))

RoundTripYears == {1900, 1999, 2000, 2024, 2100}

RoundTripDates ==
    {d \in [year : RoundTripYears, month : 1..12, day : 1..31] :
        isValidDateComponents(d.year, d.month, d.day)}

InitRoundTrip ==
    /\ parts \in RoundTripDates
    /\ pc = "formatDate"
    /\ dateStr = "" /\ text = "" /\ today = NoClock /\ parsed = null /\ valid = FALSE
    /\ found = NotFound
    /\ documentType = "passport" /\ result = undefined /\ calls = <<>> /\ dates = <<>>
    /\ noir = null /\ app = null

\* the parser returns formatDate(year, month, day), which extractDocumentData returns as
\* the birthdate
FormatDate ==
    /\ pc = "formatDate"
    /\ dateStr' = formatDate(parts.year, parts.month, parts.day)
    /\ pc' = "formatted"
    /\ UNCHANGED <<parts, text, documentType, today, parsed, valid, found, result, calls, dates,
                 noir, app>>

\* generateAgeProof calls parseBirthdate(birthdate)
ParseBirthdate ==
    /\ pc = "formatted"
    /\ result' = parseBirthdate(dateStr)
    /\ pc' = "parseBirthdate returned"
    /\ UNCHANGED <<parts, dateStr, text, documentType, today, parsed, valid, found, calls, dates,
                 noir, app>>

NextRoundTrip == FormatDate \/ ParseBirthdate

SpecRoundTrip == InitRoundTrip /\ [][NextRoundTrip]_vars

(***************************************************************************)
(* parseDocumentData on texts without a date: the document number and the  *)
(* name                                                                    *)
(***************************************************************************)
LongName == "ANNEMARIEKATHARINAELISABETHDAGMAR VONHOHENZOLLERNSIGMARINGENBERG "

ParseHeadings == {"", "PASSPORT ", "PASSPORT REPUBLIC OF KENYA "}
ParseNames == {"", "JOHN SMITH ", "SURNAME: WANJIRU MARY ANN ", LongName}
ParseNationalities == {"", "NATIONALITY KEN "}
ParseNumbers ==
    {"", "PASSPORT NO AK1626595", "ID NO 1234567", "AK1626595", "12345678",
     "NUMBER X12345", "NO: 123456"}

\* documents whose NATIONALITY marker is written before the PASSPORT marker, or after
\* a KENYAN marker
ParseMarkers ==
    {[heading |-> "NATIONALITY: KE ", name |-> "JOHN SMITH ", nationality |-> "1990 ",
      birth |-> "", number |-> "PASSPORT NO AK1626595"],
     [heading |-> "PASSPORT 12 KENYAN 34 ", name |-> "MARY WANJIRU ",
      nationality |-> "56 NATIONALITY KEN ", birth |-> "", number |-> ""]}

ParseDocuments ==
    [heading : ParseHeadings, name : ParseNames, nationality : ParseNationalities,
     birth : {""}, number : ParseNumbers]
    \cup ParseMarkers

InitParse ==
    /\ parts \in ParseDocuments
    /\ text = Printed(parts)
    /\ documentType = "passport"
    /\ today = Now
    /\ pc = "parseDocumentData"
    /\ parsed = NotParsed
    /\ dateStr = "" /\ valid = FALSE /\ found = NotFound /\ result = undefined
    /\ calls = <<>> /\ dates = <<>>
    /\ noir = null /\ app = null

ParseDocumentData ==
    /\ pc = "parseDocumentData"
    /\ parsed' = parseDocumentData(text, documentType, today)
    /\ pc' = "parsed"
    /\ UNCHANGED <<parts, dateStr, text, documentType, today, valid, found, result, calls, dates,
                 noir, app>>

NextParse == ParseDocumentData

SpecParse == InitParse /\ [][NextParse]_vars

(***************************************************************************)
(* The calls of extractDocumentData that ended                             *)
(***************************************************************************)
Ended == pc \in {"returned", "thrown"}

SpecimenText ==
    "PASSPORT JOHN SMITH NATIONALITY KEN DATE OF BIRTH: 15 JAN 1990 PASSPORT NO AK1626595"

SpecimenData(type) ==
    [birthdate |-> "1990-01-15", documentNumber |-> "AK1626595", documentType |-> type,
     fullName |-> "JOHN SMITH", country |-> "KEN"]

\* the number of the calendar day that the clock shows
LocalDay(now) == (now.t + now.tz) \div 24

DayOf(year, month, day) == DaysFromCivil(year, month, day)

\* C1: for the text "PASSPORT JOHN SMITH NATIONALITY KEN DATE OF BIRTH: 15 JAN 1990
\* PASSPORT NO AK1626595", any document type and any current date after 1990-01-15,
\* extractDocumentData returns birthdate 1990-01-15, documentNumber AK1626595, fullName
\* JOHN SMITH and country KEN.
C1_EndToEnd ==
    (Ended /\ text = SpecimenText /\ LocalDay(today) > DayOf(1990, 1, 15))
        => result = SpecimenData(documentType)

\* C1, amended: ... any document type and any current date after 1990-01-15 and before
\* 2141-01-14 (the holder is at most 150 years old) ...
C1_EndToEndInLifetime ==
    (/\ Ended
     /\ text = SpecimenText
     /\ LocalDay(today) > DayOf(1990, 1, 15)
     /\ LocalDay(today) < DayOf(2141, 1, 14))
        => result = SpecimenData(documentType)

C1_Witness ==
    /\ pc = "returned"
    /\ text = SpecimenText
    /\ documentType = "driver_license"
    /\ LocalDay(today) = DayOf(2141, 1, 13)
    /\ result = SpecimenData("driver_license")

\* the document was written with a birthdate that passes the filter, with a number
GoodBirth(p, now) ==
    /\ p.birth \in {"DATE OF BIRTH: 15 JAN 1990 ", "DOB 15,/01/1990 "}
    /\ LocalDay(now) < DayOf(2141, 1, 14)

GoodNumber(p) == p.number # ""

\* C2: extractDocumentData returns a record if and only if both a birthdate and a
\* document number were extracted from the text; every record returned has a birthdate
\* and a documentNumber that are not empty, and a fullName or a country that was not
\* found is left out of the record and causes no failure.
C2_MandatoryFields ==
    Ended =>
        /\ ~IsError(result) <=>
              parsed.birthdate # undefined /\ parsed.documentNumber # undefined
        /\ ~IsError(result) =>
              /\ result.birthdate \notin {undefined, ""}
              /\ result.documentNumber \notin {undefined, ""}
              /\ result.fullName = parsed.fullName
              /\ result.country = parsed.country
        /\ pc = "returned" <=> ~IsError(result)
        /\ text # "" => (~IsError(result) <=> GoodBirth(parts, today) /\ GoodNumber(parts))

C2_Witness ==
    /\ pc = "returned"
    /\ result.birthdate = "1990-01-15"
    /\ result.documentNumber = "12345678"
    /\ result.fullName = undefined
    /\ result.country = undefined

\* w occurs in s
Contains(s, w) == indexOf(s, w) # 0

\* no template of the candidate finder matches in s
NoDateShape(s) == \A p \in 1..Len(datePatterns) : ~Test(datePatterns[p], s)

\* the call ended after the text was recognized
Recognized ==
    pc = "returned" \/ (pc = "thrown" /\ ~Contains(result.error, "OCR extraction failed"))

MissingBirthdate == IsError(result) /\ Contains(result.error, "Could not extract birthdate")

ZeroCandidates ==
    /\ Contains(result.error, "No dates were found in the extracted text.")
    /\ ~Contains(result.error, "potential date(s)")

\* C11: for any text that contains no date-shaped substring, extractDocumentData fails
\* with the missing-birthdate error, and the message of the error says that no dates
\* were found.
C11_NoDateShape ==
    (Recognized /\ NoDateShape(text)) => MissingBirthdate /\ ZeroCandidates

\* C11, amended: for any text that contains no date-shaped substring, neither as it is
\* given nor after preprocessText has removed the characters that it does not keep, ...
C11_NoDateShapeAfterPreprocessing ==
    (Recognized /\ NoDateShape(text) /\ NoDateShape(preprocessText(text)))
        => /\ MissingBirthdate /\ ZeroCandidates
           /\ parts.birth \in {"", "DOB 15/01 "}

C11_Witness ==
    /\ pc = "thrown"
    /\ parts.birth = "DOB 15/01 " /\ parts.number = "ID NO 12345678"
    /\ NoDateShape(text)
    /\ MissingBirthdate /\ ZeroCandidates

\* the message names every candidate of diag that did not parse as one that could not be
\* parsed, and every candidate that parsed and was rejected with its reason
CarriesReasons(message, diag) ==
    /\ \A k \in 1..Len(diag.unparsed) :
          Contains(message, diag.unparsed[k] \o " -> (could not parse)")
    /\ \A k \in 1..Len(diag.invalidDates) :
          /\ Contains(message, diag.invalidDates[k].date)
          /\ Contains(message, diag.invalidDates[k].reason)

\* C12: the error thrown for a missing birthdate carries every rejected date candidate
\* with its reason: it could not be parsed, or it was parsed and is an invalid date, a
\* future date, before 1900 or of an age out of range.
C12_FailureCarriesReasons ==
    (Recognized /\ MissingBirthdate)
        => CarriesReasons(result.error, findBirthdate(preprocessText(text), today))

\* C13: normalizeOCRText(normalizeOCRText(t)) = normalizeOCRText(t) for every text t:
\* normalizing a text that normalizeOCRText returned leaves it as it is.
C13_Idempotent == [][pc = "normalized" => text' = text]_vars

C13_Witness ==
    /\ pc = "normalized again"
    /\ Concat(parts) = "1AN"
    /\ text = "JAN"

MissingNumber ==
    IsError(result) /\ Contains(result.error, "Could not extract document number")

\* C25: when the birthdate and the document number are both missing, extractDocumentData
\* fails with the missing-birthdate error; a call that fails raises one of the two
\* failures and not both, and the missing-document-number failure is raised only when
\* a birthdate was found
C25_BirthdateFirst ==
    (Recognized /\ pc \in {"thrown", "returned"}) =>
        /\ (Missing(parsed.birthdate) /\ Missing(parsed.documentNumber))
              => MissingBirthdate /\ ~MissingNumber
        /\ MissingNumber => ~Missing(parsed.birthdate) /\ ~MissingBirthdate
        /\ pc = "thrown" => MissingBirthdate # MissingNumber
        /\ pc = "returned" => ~Missing(parsed.birthdate) /\ ~Missing(parsed.documentNumber)

\* a document without a date and without a number
C25_Witness ==
    /\ pc = "thrown"
    /\ parts.birth = "" /\ parts.number = "" /\ parts.name = "JOHN SMITH "
    /\ Missing(parsed.birthdate) /\ Missing(parsed.documentNumber)
    /\ MissingBirthdate

SameInput(a, b) == a.text = b.text /\ a.documentType = b.documentType

Normalized(s) == toUpperCase(preprocessText(s))

CountOf(s, set) == Cardinality({i \in 1..Len(s) : Ch(s, i) \in set})

\* a candidate that may be a document number
AcceptableNumber(c) ==
    /\ Len(c) >= 6
    /\ ~Test(DateShaped, c)
    /\ \/ CountOf(c, Letter) >= 1 /\ CountOf(c, Digit) >= 1
       \/ CountOf(c, Digit) = Len(c) /\ Len(c) >= 8

\* the candidate of pattern k: the group of its first match ("" when it has no match)
CandidateOf(k, s) == DocNumOf(s, Match(docNumberPatterns[k], s))

EarliestAcceptable(k, s, docNum) ==
    /\ AcceptableNumber(docNum)
    /\ docNum = CandidateOf(k, s)
    /\ \A j \in 1..(k - 1) : ~AcceptableNumber(CandidateOf(j, s))

\* C15: a documentNumber that parseDocumentData returns is the candidate of the earliest
\* of the five patterns (number keyword, country-code prefix, letter-prefixed token, 8-12
\* digit run, generic NO/NUMBER) whose candidate has length >= 6, is not date-shaped and
\* has a letter and a digit or is purely numeric with at least 8 digits
C15_DocumentNumber ==
    (pc = "parsed" /\ parsed.documentNumber # undefined) =>
        \E k \in 1..Len(docNumberPatterns) :
            EarliestAcceptable(k, Normalized(text), parsed.documentNumber)

\* the keyword pattern gives REPUBLIC, which is passed over, and the country-code pattern
\* gives the number
C15_Witness ==
    /\ pc = "parsed"
    /\ parts.heading = "PASSPORT REPUBLIC OF KENYA "
    /\ parts.nationality = "NATIONALITY KEN "
    /\ parts.number = "AK1626595"
    /\ CandidateOf(1, Normalized(text)) = "REPUBLIC"
    /\ CandidateOf(2, Normalized(text)) = "AK1626595"
    /\ parsed.documentNumber = "AK1626595"

WordsOf(name) == split(toUpperCase(name))

\* C16: every fullName that parseDocumentData returns, from a name pattern or from the
\* text between PASSPORT and NATIONALITY, has 2 to 5 words and 5 to 60 characters, no
\* word of the denylist and no word shorter than 3 characters
C16_FullName ==
    (pc = "parsed" /\ parsed.fullName # undefined) =>
        /\ Len(WordsOf(parsed.fullName)) \in 2..5
        /\ Len(parsed.fullName) \in 5..60
        /\ \A k \in 1..Len(WordsOf(parsed.fullName)) :
               /\ ~Includes(falsePositives, WordsOf(parsed.fullName)[k])
               /\ Len(WordsOf(parsed.fullName)[k]) >= 3

\* the positions, counted from 1, at which w occurs in s
Occurrences(s, w) == {i \in 1..(Len(s) - Len(w) + 1) : SubSeq(s, i, i + Len(w) - 1) = w}

\* the NATIONALITY and KENYAN markers that follow the PASSPORT marker at position i
MarkersAfter(s, i) ==
    {j \in Occurrences(s, "NATIONALITY") \cup Occurrences(s, "KENYAN") : j >= i + Len("PASSPORT")}

\* name lies strictly after a PASSPORT marker of s and before the nearest NATIONALITY or
\* KENYAN marker that follows it
InSpan(s, name) ==
    \E i \in Occurrences(s, "PASSPORT") :
        /\ MarkersAfter(s, i) # {}
        /\ Contains(SubSeq(s, i + Len("PASSPORT"), Min(MarkersAfter(s, i)) - 1), name)

\* C21: a name that comes from the fallback (no name pattern gave one) lies strictly
\* after a PASSPORT marker and before the nearest NATIONALITY or KENYAN marker that
\* follows that PASSPORT marker; without such a following marker there is no name
C21_FallbackSpan ==
    (/\ pc = "parsed"
     /\ PatternName(Normalized(text), 1) = undefined
     /\ parsed.fullName # undefined)
        => InSpan(Normalized(text), parsed.fullName)

(***************************************************************************)
(* The texts of SpecFind, as they were written                             *)
(***************************************************************************)
\* the date token tok parses and passes the plausibility filter when the clock reads now
PlausibleToken(tok, now) ==
    tok # "" /\ parseDate(tok) # null /\ isValidBirthdate(parseDate(tok), now)

\* the date tokens written into the text, in the order of the text
Tokens(p) == SelectSeq(<<p.other, p.dob>>, LAMBDA tok : tok # "")

\* no window of a keyword holds a plausible date: no label was written, or the date
\* after it is not plausible and the other date is not plausible or out of the window
NoWindowDate(p, now) ==
    \/ p.label = ""
    \/ /\ ~PlausibleToken(p.dob, now)
       /\ p.gap >= WindowBefore \/ ~PlausibleToken(p.other, now)

\* the day number of a canonical date
DayNumber(str) == 372 * YearIn(str) + 31 * MonthIn(str) + DayIn(str)

HasEntry(entries, date, reason) ==
    \E k \in 1..Len(entries) : entries[k].date = date /\ entries[k].reason = reason

C9_KeywordPrecedence ==
    (/\ pc = "found"
     /\ parts.label # ""
     /\ PlausibleToken(parts.dob, today)
     /\ PlausibleToken(parts.other, today))
        => found.ret = parseDate(parts.dob)

\* C9, amended: ... and the other date ends 75 characters or more before the keyword
\* (out of the window of the keyword), findBirthdate returns the date after the keyword.
C9_KeywordWindow ==
    (/\ pc = "found"
     /\ parts.label # ""
     /\ PlausibleToken(parts.dob, today)
     /\ PlausibleToken(parts.other, today)
     /\ parts.gap >= WindowBefore)
        => found.ret = parseDate(parts.dob) /\ found.ret # parseDate(parts.other)

C9_Witness ==
    /\ pc = "found"
    /\ parts.label = "Date of birth " /\ parts.other = "12 MAR 1985" /\ parts.gap = FarGap
    /\ parts.dob = "15 JAN 1990" /\ found.ret = "1990-01-15"

\* C10: when no keyword window holds a plausible date, findBirthdate returns the
\* earliest (the smallest canonical string) of the dates of the candidates of the text
\* that parse and pass the plausibility filter, and null exactly when there is none.
C10_Fallback ==
    (pc = "found" /\ NoWindowDate(parts, today)) =>
        LET good == {parseDate(tok) : tok \in {t \in {parts.other, parts.dob} :
                                                  PlausibleToken(t, today)}}
        IN  /\ found.ret = null <=> good = {}
            /\ found.ret # null =>
                  /\ found.ret \in good
                  /\ \A g \in good : DayNumber(found.ret) <= DayNumber(g)

C10_Witness ==
    /\ pc = "found"
    /\ parts.label = "" /\ parts.other = "01/02/2000" /\ parts.dob = "15 JAN 1990"
    /\ found.ret = "1990-01-15"

(***************************************************************************)
(* The texts of SpecKeywords, as they were written                         *)
(***************************************************************************)
\* C17: when the window of DOB and the window of BORN each hold a plausible date,
\* findBirthdate returns the date of the window of DOB, which comes before BORN in the
\* list of keywords, whether DOB is written before BORN in the text or after it
C17_KeywordPriority ==
    (/\ pc = "found"
     /\ parts.label1 # parts.label2
     /\ PlausibleToken(parts.date1, today)
     /\ PlausibleToken(parts.date2, today))
        => found.ret = parseDate(IF parts.label1 = "DOB " THEN parts.date1 ELSE parts.date2)

\* BORN is written first and DOB 150 characters after its date
C17_Witness ==
    /\ pc = "found"
    /\ parts.label1 = "BORN " /\ parts.date1 = "01/02/2000"
    /\ parts.label2 = "DOB " /\ parts.date2 = "15 JAN 1990"
    /\ PlausibleToken(parts.date1, today)
    /\ found.ret = "1990-01-15"

\* the dates of the windows of the labels that pass the plausibility filter
WindowDates(p, now) ==
    {parseDate(tok) : tok \in {t \in {p.date1, p.date2} : PlausibleToken(t, now)}}

\* C18: when an occurrence of a keyword, the first or a later one, has a plausible date
\* in its window, findBirthdate returns a date of a keyword window and not the earliest
\* date of the whole document
C18_EveryOccurrence ==
    (pc = "found" /\ PlausibleToken(parts.date2, today)) =>
        found.ret \in WindowDates(parts, today)

(***************************************************************************)
(* The list of extractAllDates                                             *)
(***************************************************************************)
\* C19: the list that extractAllDates returns never holds the same candidate string
\* twice
C19_NoDuplicates ==
    pc = "extracted" => \A i, j \in 1..Len(dates) : dates[i] = dates[j] => i = j

(***************************************************************************)
(* The dates of SpecBirth                                                  *)
(***************************************************************************)
\* the date of dateStr lies after the current date: its day is after the day that the
\* clock shows, or its midnight is after the instant of the clock
AfterNow(str, now) ==
    \/ DayOf(YearIn(str), MonthIn(str), DayIn(str)) > LocalDay(now)
    \/ newDate(str).t > now.t

\* C23: a date of the parser (a date of the calendar of a year in 1900..2100) that
\* isValidBirthdate rejects on a current date of a year up to 2050 lies after the
\* current date; the reason of its rejection is never "before 1900" or "age out of
\* range"
C23_OnlyFutureRejected ==
    (/\ pc = "checked"
     /\ isValidDateComponents(parts.year, parts.month, parts.day)
     /\ LocalDate(today.t, today.tz).year <= 2050
     /\ ~valid)
        => /\ AfterNow(dateStr, today)
           /\ Reason(dateStr, today) = "future date"

\* C24: isValidBirthdate returns false for every date whose day is after the day that
\* the clock shows in its time zone, the date one day ahead included
C24_NoFutureDate ==
    (pc = "checked" /\ DayOf(parts.year, parts.month, parts.day) > LocalDay(today))
        => ~valid

(***************************************************************************)
(* The dates of SpecRoundTrip                                              *)
(***************************************************************************)
\* C26: for every date of the calendar with its year in 1900..2100, parseBirthdate of
\* the string that formatDate writes does not throw and returns the year, the month
\* and the day that were formatted
C26_RoundTrip ==
    pc = "parseBirthdate returned" =>
        /\ ~IsError(result)
        /\ result = [year |-> parts.year, month |-> parts.month, day |-> parts.day]

\* a month and a day that formatDate pads with a zero
C26_Witness ==
    /\ pc = "parseBirthdate returned"
    /\ dateStr = "2000-02-09"
    /\ result = [year |-> 2000, month |-> 2, day |-> 9]

(***************************************************************************)
(* The proof service under concurrent calls: the module variables          *)
(* noirInstance and backend, the promise of noirInstance.init(), and the   *)
(* calls of initializeNoir, generateAgeProof and verifyProof in flight.    *)
(* A step runs a call from one await to the next, as the event loop does.  *)
(***************************************************************************)
MaxCallers == 2

Callers == 1 .. MaxCallers

\* call[p].init is the state of noirInstance.init() when the call took its last step
NoCall == [fn |-> "none", at |-> "idle", init |-> "not called"]

NoirModule ==
    [noirInstance |-> null, backend |-> null, init |-> "not called",
     call |-> [p \in Callers |-> NoCall]]

\* noirInstance && backend
Initialized(n) == n.noirInstance # null /\ n.backend # null

At(n, p, fn, at) == [n EXCEPT !.call[p] = [fn |-> fn, at |-> at, init |-> n.init]]

\* initializeNoir up to its await: both variables are assigned before init() is awaited
initializeNoir(n, p, fn) ==
    IF Initialized(n)
    THEN At(n, p, fn, "initializeNoir resolved")
    ELSE At([n EXCEPT !.backend = "BarretenbergBackend",
                      !.noirInstance = "Noir",
                      !.init = "pending"], p, fn, "await init")

\* the second guard of generateAgeProof and of verifyProof, and the call that follows it
Proceed(n, p, fn) ==
    IF ~Initialized(n)
    THEN At(n, p, fn, "rejected")
    ELSE At(n, p, fn, IF fn = "generateAgeProof" THEN "noirInstance.execute"
                                                 ELSE "backend.verifyProof")

\* the first guard of generateAgeProof and of verifyProof
Guarded(n, p, fn) ==
    IF ~Initialized(n) THEN initializeNoir(n, p, fn) ELSE Proceed(n, p, fn)

InitNoir ==
    /\ noir = NoirModule
    /\ parts = null /\ dateStr = "" /\ text = "" /\ today = NoClock /\ pc = "proof service"
    /\ parsed = null /\ valid = FALSE /\ found = NotFound
    /\ documentType = "passport" /\ result = undefined /\ calls = <<>> /\ dates = <<>>
    /\ app = null

\* a step of the proof service leaves the rest of the state alone
ServiceOnly ==
    UNCHANGED <<parts, dateStr, text, documentType, today, pc, parsed, valid, found, result,
                calls, dates, app>>

InitializeNoir(p) ==
    /\ noir.call[p].at = "idle"
    /\ noir' = initializeNoir(noir, p, "initializeNoir")
    /\ ServiceOnly

\* called with a birthdate that parseBirthdate accepts
GenerateAgeProof(p) ==
    /\ noir.call[p].at = "idle"
    /\ noir' = Guarded(noir, p, "generateAgeProof")
    /\ ServiceOnly

VerifyProof(p) ==
    /\ noir.call[p].at = "idle"
    /\ noir' = Guarded(noir, p, "verifyProof")
    /\ ServiceOnly

\* noirInstance.init() fulfils: initializeNoir logs and resolves
InitCompletes(p) ==
    /\ noir.call[p].at = "await init"
    /\ noir' = At([noir EXCEPT !.init = "completed"], p, noir.call[p].fn,
                  "initializeNoir resolved")
    /\ ServiceOnly

\* noirInstance.init() rejects: the catch throws, and neither variable is reset
InitFails(p) ==
    /\ noir.call[p].at = "await init"
    /\ noir' = At([noir EXCEPT !.init = "failed"], p, noir.call[p].fn, "rejected")
    /\ ServiceOnly

\* the caller of initializeNoir goes on after its await
Resume(p) ==
    /\ noir.call[p].at = "initializeNoir resolved"
    /\ noir' = IF noir.call[p].fn = "initializeNoir"
               THEN [noir EXCEPT !.call[p].at = "returned"]
               ELSE Proceed(noir, p, noir.call[p].fn)
    /\ ServiceOnly

\* the call ends, and its caller is free to call again
Return(p) ==
    /\ noir.call[p].at \in {"returned", "rejected", "noirInstance.execute",
                            "backend.verifyProof"}
    /\ noir' = [noir EXCEPT !.call[p] = NoCall]
    /\ ServiceOnly

NextNoir ==
    \/ \E p \in Callers : InitializeNoir(p)
    \/ \E p \in Callers : GenerateAgeProof(p)
    \/ \E p \in Callers : VerifyProof(p)
    \/ \E p \in Callers : InitCompletes(p)
    \/ \E p \in Callers : InitFails(p)
    \/ \E p \in Callers : Resume(p)
    \/ \E p \in Callers : Return(p)

SpecNoir == InitNoir /\ [][NextNoir]_vars

\* C27: initializeNoir resolves only when noirInstance.init() has completed, and
\* generateAgeProof executes the circuit only on an instance whose init() has completed
C27_InitializedBeforeUse ==
    \A p \in Callers :
        /\ noir.call[p].at = "initializeNoir resolved" => noir.call[p].init = "completed"
        /\ noir.call[p].at = "noirInstance.execute" => noir.call[p].init = "completed"

(***************************************************************************)
(* The wizard of App.tsx: the state of the component, localStorage as the  *)
(* effects leave it after a render, and the extractions, proof             *)
(* generations and timers that a handler started and that have not         *)
(* completed.  A handler reads the state of the render that created it, so *)
(* a pending call keeps what it captured.  pc is the handler or callback   *)
(* that ran last.                                                          *)
(***************************************************************************)
Files == {"passport.jpg", "id-card.png"}

Address == "0x71C7656EC7ab88b098defB751B7401B5f6d8976F"

ExtractedFrom(file) == "data of " \o file

Extractions == {ExtractedFrom(file) : file \in Files}

ProofFor(data) == "proof for " \o data

\* reset is TRUE from a run of handleReupload or handleReturnToLanding until the next
\* run of handleDocumentUploaded; pending calls that captured the same value count once
AppStart ==
    [showLanding |-> TRUE, uploadedDocument |-> null, connectedAddress |-> "",
     currentStep |-> "upload", isProcessing |-> FALSE, zkProof |-> null,
     extractedData |-> null,
     localStorage |-> [SHOW_LANDING |-> null, CURRENT_STEP |-> null, EXTRACTED_DATA |-> null,
                       UPLOADED_DOCUMENT |-> null, CONNECTED_ADDRESS |-> null,
                       ZK_PROOF |-> null],
     pending |-> {}, reset |-> FALSE]

Pending(handler, captured) == [handler |-> handler, captured |-> captured]

\* the effect that leaves step 'extract' when there is no document
LeaveExtract(a) ==
    IF a.currentStep = "extract" /\ a.uploadedDocument = null
    THEN [a EXCEPT !.currentStep = IF a.extractedData # null THEN "proof" ELSE "upload"]
    ELSE a

\* the effects that save the state: a value that is empty removes its item
Persist(a) ==
    [a EXCEPT !.localStorage =
        [SHOW_LANDING |-> IF a.showLanding THEN "true" ELSE "false",
         CURRENT_STEP |-> a.currentStep,
         EXTRACTED_DATA |-> a.extractedData,
         UPLOADED_DOCUMENT |-> a.uploadedDocument,
         CONNECTED_ADDRESS |-> IF a.connectedAddress = "" THEN null ELSE a.connectedAddress,
         ZK_PROOF |-> a.zkProof]]

Effects(a) == Persist(LeaveExtract(a))

\* the panels of the steps, and their buttons, are rendered only when nothing is processing
Panel(step) == ~app.showLanding /\ ~app.isProcessing /\ app.currentStep = step

handleReupload(a) ==
    [a EXCEPT !.uploadedDocument = null, !.extractedData = null, !.currentStep = "upload",
              !.isProcessing = FALSE, !.reset = TRUE]

handleReturnToLanding(a) ==
    [a EXCEPT !.showLanding = TRUE, !.uploadedDocument = null, !.extractedData = null,
              !.currentStep = "upload", !.isProcessing = FALSE, !.reset = TRUE]

InitWizard ==
    /\ app = AppStart
    /\ pc = "App"
    /\ parts = null /\ dateStr = "" /\ text = "" /\ today = NoClock
    /\ parsed = null /\ valid = FALSE /\ found = NotFound
    /\ documentType = "passport" /\ result = undefined /\ calls = <<>> /\ dates = <<>>
    /\ noir = null

\* a step of the wizard leaves the rest of the state alone
WizardOnly ==
    UNCHANGED <<parts, dateStr, text, documentType, today, parsed, valid, found, result,
                calls, dates, noir>>

HandleGetStarted ==
    /\ app.showLanding
    /\ app' = Effects([app EXCEPT !.showLanding = FALSE])
    /\ pc' = "handleGetStarted"
    /\ WizardOnly

\* connectWallet resolves and calls onConnect(address)
Connect ==
    /\ ~app.showLanding
    /\ app.connectedAddress = ""
    /\ app' = Effects([app EXCEPT !.connectedAddress = Address])
    /\ pc' = "connectWallet"
    /\ WizardOnly

Disconnect ==
    /\ ~app.showLanding
    /\ app.connectedAddress # ""
    /\ app' = Effects([app EXCEPT !.connectedAddress = ""])
    /\ pc' = "disconnect"
    /\ WizardOnly

HandleDocumentUploaded(file) ==
    /\ Panel("upload")
    /\ app.connectedAddress # ""
    /\ app' = Effects([app EXCEPT !.uploadedDocument = file, !.currentStep = "extract",
                                  !.reset = FALSE])
    /\ pc' = "handleDocumentUploaded"
    /\ WizardOnly

\* handleProcessDocument up to its await of extractDocumentData
HandleProcessDocument ==
    /\ Panel("extract")
    /\ app.uploadedDocument # null
    /\ app' = Effects([app EXCEPT
                  !.isProcessing = TRUE, !.currentStep = "extract",
                  !.pending = @ \cup {Pending("handleProcessDocument",
                                              app.uploadedDocument)}])
    /\ pc' = "handleProcessDocument"
    /\ WizardOnly

\* extractDocumentData resolves: the document that the call captured is set again
ExtractionResolves(file) ==
    /\ Pending("handleProcessDocument", file) \in app.pending
    /\ app' = Effects([app EXCEPT
                  !.extractedData = ExtractedFrom(file),
                  !.uploadedDocument = file,
                  !.currentStep = "proof", !.isProcessing = FALSE,
                  !.pending = @ \ {Pending("handleProcessDocument", file)}])
    /\ pc' = "extractDocumentData resolved"
    /\ WizardOnly

ExtractionRejects(file) ==
    /\ Pending("handleProcessDocument", file) \in app.pending
    /\ app' = Effects([app EXCEPT
                  !.isProcessing = FALSE,
                  !.pending = @ \ {Pending("handleProcessDocument", file)}])
    /\ pc' = "extractDocumentData rejected"
    /\ WizardOnly

\* handleGenerateProof up to its first await
HandleGenerateProof ==
    /\ Panel("proof")
    /\ app.extractedData # null
    /\ app' = Effects([app EXCEPT
                  !.isProcessing = TRUE, !.currentStep = "proof",
                  !.pending = @ \cup {Pending("handleGenerateProof", app.extractedData)}])
    /\ pc' = "handleGenerateProof"
    /\ WizardOnly

\* generateAgeProof resolves with the proof for the birthdate that the call captured
ProofResolves(data) ==
    /\ Pending("handleGenerateProof", data) \in app.pending
    /\ app' = Effects([app EXCEPT
                  !.zkProof = ProofFor(data),
                  !.currentStep = "credential", !.isProcessing = FALSE,
                  !.pending = @ \ {Pending("handleGenerateProof", data)}])
    /\ pc' = "generateAgeProof resolved"
    /\ WizardOnly

\* initializeNoir or generateAgeProof rejects
ProofRejects(data) ==
    /\ Pending("handleGenerateProof", data) \in app.pending
    /\ app' = Effects([app EXCEPT
                  !.isProcessing = FALSE,
                  !.pending = @ \ {Pending("handleGenerateProof", data)}])
    /\ pc' = "generateAgeProof rejected"
    /\ WizardOnly

\* the button is disabled, and the handler returns, when no wallet is connected
HandleCreateCredential ==
    /\ Panel("credential")
    /\ app.connectedAddress # ""
    /\ app' = Effects([app EXCEPT
                  !.isProcessing = TRUE, !.currentStep = "credential",
                  !.pending = @ \cup {Pending("handleCreateCredential", null)}])
    /\ pc' = "handleCreateCredential"
    /\ WizardOnly

\* the callback of the timer of 2.5 s
CredentialCreated ==
    /\ Pending("handleCreateCredential", null) \in app.pending
    /\ app' = Effects([app EXCEPT
                  !.currentStep = "verify", !.isProcessing = FALSE,
                  !.pending = @ \ {Pending("handleCreateCredential", null)}])
    /\ pc' = "credential created"
    /\ WizardOnly

HandleVerify ==
    /\ Panel("verify")
    /\ app' = Effects([app EXCEPT
                  !.isProcessing = TRUE, !.currentStep = "verify",
                  !.pending = @ \cup {Pending("handleVerify", null)}])
    /\ pc' = "handleVerify"
    /\ WizardOnly

\* the callback of the timer of 2 s
VerificationComplete ==
    /\ Pending("handleVerify", null) \in app.pending
    /\ app' = Effects([app EXCEPT !.isProcessing = FALSE,
                                  !.pending = @ \ {Pending("handleVerify", null)}])
    /\ pc' = "verification complete"
    /\ WizardOnly

\* every panel but that of step 'upload' has the button
HandleReupload ==
    /\ \/ Panel("extract") /\ app.uploadedDocument # null
       \/ Panel("proof") /\ app.extractedData # null
       \/ Panel("credential")
       \/ Panel("verify")
    /\ app' = Effects(handleReupload(app))
    /\ pc' = "handleReupload"
    /\ WizardOnly

\* the button of the header, which is rendered while something is processing too
HandleReturnToLanding ==
    /\ ~app.showLanding
    /\ app' = Effects(handleReturnToLanding(app))
    /\ pc' = "handleReturnToLanding"
    /\ WizardOnly

NextWizard ==
    \/ HandleGetStarted
    \/ Connect
    \/ Disconnect
    \/ \E file \in Files : HandleDocumentUploaded(file)
    \/ HandleProcessDocument
    \/ \E file \in Files : ExtractionResolves(file)
    \/ \E file \in Files : ExtractionRejects(file)
    \/ HandleGenerateProof
    \/ \E data \in Extractions : ProofResolves(data)
    \/ \E data \in Extractions : ProofRejects(data)
    \/ HandleCreateCredential
    \/ CredentialCreated
    \/ HandleVerify
    \/ VerificationComplete
    \/ HandleReupload
    \/ HandleReturnToLanding

SpecWizard == InitWizard /\ [][NextWizard]_vars

\* C28: from a run of handleReupload or handleReturnToLanding until a new document is
\* uploaded, currentStep is 'upload' and extractedData is null, whichever extraction,
\* proof generation or timer completes in between
C28_ResetHolds ==
    app.reset => app.currentStep = "upload" /\ app.extractedData = null

\* C29: when handleReupload or handleReturnToLanding has run, uploadedDocument,
\* extractedData and zkProof are null and localStorage holds no proof
C29_ResetClearsProof ==
    pc \in {"handleReupload", "handleReturnToLanding"} =>
        /\ app.uploadedDocument = null
        /\ app.extractedData = null
        /\ app.zkProof = null
        /\ app.localStorage.ZK_PROOF = null

\* C30: a step that takes currentStep from 'credential' to 'verify' ends with a wallet
\* connected
C30_VerifyOnlyConnected ==
    [][(app.currentStep = "credential" /\ app'.currentStep = "verify")
          => app'.connectedAddress # ""]_vars

====
